---- MODULE Spec2Model ----
(***************************************************************************)
(* flexline: seeded world generator, chunk cache / generation coordinator  *)
(* (GameStateManager), worker pool dispatcher (WorkerManager) and the      *)
(* chunk / texture workers.                                                *)
(*                                                                         *)
(* The specifications share the variables:                                 *)
(*   SpecGen  the two generators (main thread and worker replica) applied  *)
(*            to drawn seeds, coordinates and noise fields;                *)
(*   Spec     the GameStateManager on the control thread: synchronous      *)
(*            calls, async calls and the microtasks they queue;            *)
(*   SpecFail Spec plus a generation that throws inside the microtask;     *)
(*   SpecChunkPool    the WorkerManager's chunk pool and the chunk workers;*)
(*   SpecTexturePool  its texture pool and the texture workers;            *)
(*   SpecWM   both pools together.                                         *)
(* Noise values are integers in thousandths (0.7 is 700).                  *)
(***************************************************************************)
EXTENDS Integers, Sequences, FiniteSets, TLC

VARIABLES
  noisePhase,               \* the drawn noise fields (see Noise)
  gSeed, gX, gY,            \* SpecGen: the inputs of the generators
  gMain, gWorker,           \* SpecGen: last chunk returned by each generator
  aTile, addressed,         \* SpecAddress: a world tile and how the game addressed it
  pendingChunks,            \* GameRenderer.pendingChunks
  chunkContainers,          \* GameRenderer.chunkContainers: key -> what is shown for it
  chunkTextures,            \* keys of GameRenderer.chunkTextures
  renderBodies,             \* per key: the renderChunkAsync bodies in progress, by what they await
  renderLog,                \* history: renderer calls made, chunk requests per key
  worldSeed,                \* GameStateManager.state.worldSeed
  worldGenerator,           \* GameStateManager.worldGenerator
  chunks,                   \* GameStateManager.state.chunks: key -> Chunk
  inventory,                \* GameStateManager.state.inventory
  chunkGenerationPromises,  \* key -> promise (an index of promises)
  promises,                 \* every promise created by getOrGenerateChunkAsync on a miss
  microtasks,               \* queued .then callbacks, in FIFO order
  callers,                  \* history: every getOrGenerateChunkAsync call and what it got
  genCalls,                 \* history: key -> invocations of worldGenerator.generateChunk
  chunkWrites,              \* history: key -> state.chunks.set calls
  epoch,                    \* history: key -> async generations completed so far
  notifyCount,              \* history: calls of notify()
  syncOps, resets,          \* history: synchronous operations, resetState calls
  lastOp,                   \* history: the operation of the last step
  craftedItems,             \* GameStateManager.state.craftedItems
  camera,                   \* GameStateManager.state.cameraX / cameraY / cameraZoom
  entities,                 \* GameStateManager.state.entities, in insertion order
  selectedCraftingItem,     \* GameStateManager.state.selectedCraftingItem
  localStorage,             \* localStorage["gameState"]
  saveTimeout,              \* GameStateManager.saveTimeout is armed
  listeners,                \* GameStateManager.listeners
  listenerLog,              \* history: per listener, its handle and its invocations
  returned,                 \* history: what getOrGenerateChunk / placeEntity returned in the last step
  hardwareConcurrency,      \* navigator.hardwareConcurrency
  chunkWorkers,             \* WorkerManager.chunkWorkers
  textureWorkers,           \* WorkerManager.textureWorkers
  chunkRequestId,           \* WorkerManager.chunkRequestId
  textureRequestId,         \* WorkerManager.textureRequestId
  pendingChunkRequests,     \* ids of WorkerManager.pendingChunkRequests
  pendingTextureRequests,   \* ids of WorkerManager.pendingTextureRequests
  chunkInbox, chunkOutbox,  \* per chunk worker: messages posted to it / by it
  textureInbox, textureOutbox, \* per texture worker: messages posted to it / by it
  timers,                   \* armed setTimeout callbacks of the WorkerManager
  generator,                \* per chunk worker: its module variable generator
  chunkCache,               \* per chunk worker: its module variable chunkCache
  pregenerateHandlers,      \* texture workers whose pregenerate handler is attached
  requests,                 \* history: id -> the request made under that id
  outcome                   \* history: id -> what the caller's promise got

genVars == <<gSeed, gX, gY, gMain, gWorker, aTile, addressed>>
rendVars == <<pendingChunks, chunkContainers, chunkTextures, renderBodies, renderLog>>
gsmVars == <<worldSeed, worldGenerator, chunks, inventory, chunkGenerationPromises,
             promises, microtasks, callers, genCalls, chunkWrites, epoch,
             notifyCount, syncOps, resets, lastOp, craftedItems, camera, entities,
             selectedCraftingItem, localStorage, saveTimeout, listeners,
             listenerLog, returned>>
playerVars == <<craftedItems, camera, entities, selectedCraftingItem, localStorage>>
wmVars == <<hardwareConcurrency, chunkWorkers, textureWorkers, chunkRequestId,
            textureRequestId, pendingChunkRequests, pendingTextureRequests,
            chunkInbox, chunkOutbox, textureInbox, textureOutbox, timers,
            generator, chunkCache, pregenerateHandlers, requests, outcome>>

(***************************************************************************)
(* Bounds of the model                                                     *)
(***************************************************************************)
NumCells == 2       \* sample cells of a noise field
GridSpan == 2       \* local offsets 0..GridSpan-1 (and CHUNK_SIZE-1) are materialised
MaxCoord == 1       \* chunk coordinates range over -MaxCoord..MaxCoord-1 (x), 0..MaxCoord-1 (y)
MaxAsyncCalls == 3  \* getOrGenerateChunkAsync calls
MaxSyncOps == 2     \* getOrGenerateChunk and mineResource calls
MaxResets == 1      \* resetState calls
HardwareConcurrency == 4   \* largest navigator.hardwareConcurrency
MaxChunkRequests == 2      \* WorkerManager.generateChunk calls
MaxTextureRequests == 2    \* WorkerManager.generate*Texture calls
MaxRequests == 3           \* WorkerManager requests of both pools together
MaxPlayerAsyncCalls == 1   \* getOrGenerateChunkAsync calls next to the player's operations

(***************************************************************************)
(* Program constants                                                       *)
(***************************************************************************)
CHUNK_SIZE == 32
TerrainScale == 15
ElevationScale == 25
ResourceScale == 50
SpawnScale == 100
AmountScale == 80
LandThreshold == -100
WaterElevationThreshold == 200
SpawnThreshold == 700
IronBand == 600
CopperBand == 300
StoneBand == -300
AmountFactor == 25
AmountBase == 50
Milli == 1000

Seeds == <<"abc", "xyz", "pqr">>
SeedSet == {Seeds[i] : i \in 1..Len(Seeds)}
SeedIndex(s) == CHOOSE i \in 1..Len(Seeds) : Seeds[i] = s

None == <<>>
Some(v) == <<v>>

ChunkXs == (-MaxCoord)..(MaxCoord - 1)
ChunkYs == 0..(MaxCoord - 1)
SampleOffsets == (0..(GridSpan - 1)) \cup {CHUNK_SIZE - 1}

(***************************************************************************)
(* Seeded noise fields.  new Prando(seed) is one stream; the k-th          *)
(* createNoise2D call consumes the k-th block of its draws, so a field is  *)
(* identified by (seed, k).  A field is a function of the sample point;    *)
(* the model draws it from a bounded family: the point is hashed into a    *)
(* cell and the value is taken from the levels of the field, which stand   *)
(* on both sides of every threshold the generator compares with.           *)
(***************************************************************************)
Slots == 1..5
NoiseLevels ==
  << <<-100, -99, 400>>,                \* 1st field (terrain): -0.1, -0.099, 0.4
     <<-300, 0, 300, 600, 601>>,        \* 2nd field (resource kind)
     <<0, 200, 201>>,                   \* 3rd field (elevation)
     <<700, 701>>,                      \* 4th field (spawn)
     <<-1000, 0, 999, 1000>> >>         \* 5th field (amount): both ends of [-1, 1]

PhaseSet == [Slots -> 0..4]
Phases == {p \in PhaseSet : \A k \in Slots : p[k] < Len(NoiseLevels[k])}

Cell(sx, sy) == ((sx \div 10) + 3 * (sy \div 10)) % NumCells

Noise(seed, k, sx, sy) ==
  LET V == NoiseLevels[k]
  IN  V[((noisePhase[k] + (SeedIndex(seed) - 1) + Cell(sx, sy)) % Len(V)) + 1]

(***************************************************************************)
(* WorldGenerator (main thread)                                            *)
(***************************************************************************)
\* a generator that reads the amount from the spawn field
WorldGeneratorAmountOfSpawnField(seed) ==
  [ seed |-> seed,
    terrainNoise |-> 1,
    resourceNoise |-> 2,
    elevationNoise |-> 3,
    resourceSpawnNoise |-> 4,
    resourceAmountNoise |-> 4 ]

WorldGenerator(seed) ==
  [ seed |-> seed,
    terrainNoise |-> 1,
    resourceNoise |-> 2,
    elevationNoise |-> 3,
    resourceSpawnNoise |-> 4,
    resourceAmountNoise |-> 5 ]

\* a tile generator that forgets the `type === "land"` test of the spawn condition
generateTileSpawnsAnywhere(gen, tileX, tileY) ==
  LET terrainValue == Noise(gen.seed, gen.terrainNoise,
                            tileX * TerrainScale, tileY * TerrainScale)
      elevationValue == Noise(gen.seed, gen.elevationNoise,
                              tileX * ElevationScale, tileY * ElevationScale)
      resourceValue == Noise(gen.seed, gen.resourceNoise,
                             tileX * ResourceScale, tileY * ResourceScale)
      resourceSpawnValue == Noise(gen.seed, gen.resourceSpawnNoise,
                                  tileX * SpawnScale, tileY * SpawnScale)
      resourceAmountValue == Noise(gen.seed, gen.resourceAmountNoise,
                                   tileX * AmountScale, tileY * AmountScale)
      type == IF terrainValue > LandThreshold THEN "land" ELSE "water"
      spawns == resourceSpawnValue > SpawnThreshold
  IN  [ type |-> type,
        elevation |-> IF elevationValue > 0 THEN 1 ELSE 0,
        resource |-> IF spawns
                     THEN Some(IF resourceValue > 0 THEN "coal" ELSE "wood")
                     ELSE None,
        resourceAmount |->
          IF spawns
          THEN Some((((resourceAmountValue + Milli) * AmountFactor) \div Milli)
                    + AmountBase)
          ELSE None ]

generateTile(gen, tileX, tileY) ==
  LET terrainValue == Noise(gen.seed, gen.terrainNoise,
                            tileX * TerrainScale, tileY * TerrainScale)
      elevationValue == Noise(gen.seed, gen.elevationNoise,
                              tileX * ElevationScale, tileY * ElevationScale)
      resourceValue == Noise(gen.seed, gen.resourceNoise,
                             tileX * ResourceScale, tileY * ResourceScale)
      resourceSpawnValue == Noise(gen.seed, gen.resourceSpawnNoise,
                                  tileX * SpawnScale, tileY * SpawnScale)
      resourceAmountValue == Noise(gen.seed, gen.resourceAmountNoise,
                                   tileX * AmountScale, tileY * AmountScale)
      type == IF terrainValue > LandThreshold THEN "land" ELSE "water"
      elevation == IF type = "land"
                   THEN (IF elevationValue > 0 THEN 1 ELSE 0)
                   ELSE (IF elevationValue > WaterElevationThreshold THEN 0 ELSE 1)
      spawns == type = "land" /\ resourceSpawnValue > SpawnThreshold
      resource == IF resourceValue > IronBand THEN "iron"
                  ELSE IF resourceValue > CopperBand THEN "copper"
                  ELSE IF resourceValue > 0 THEN "coal"
                  ELSE IF resourceValue > StoneBand THEN "stone"
                  ELSE "wood"
      resourceAmount ==
        (((resourceAmountValue + Milli) * AmountFactor) \div Milli) + AmountBase
  IN  [ type |-> type,
        elevation |-> elevation,
        resource |-> IF spawns THEN Some(resource) ELSE None,
        resourceAmount |-> IF spawns THEN Some(resourceAmount) ELSE None ]

\* a chunk generator whose resource bands include their lower ends
\* (>= 0.6 iron, >= 0.3 copper, >= 0 coal, >= -0.3 stone)
generateChunkInclusiveBands(gen, chunkX, chunkY) ==
  [ x |-> chunkX,
    y |-> chunkY,
    tiles |-> [ y \in SampleOffsets |->
                [ x \in SampleOffsets |->
                    LET tileX == chunkX * CHUNK_SIZE + x
                        tileY == chunkY * CHUNK_SIZE + y
                        made == generateTile(gen, tileX, tileY)
                        resourceValue ==
                          Noise(gen.seed, gen.resourceNoise,
                                tileX * ResourceScale, tileY * ResourceScale)
                    IN  IF made.resource = None THEN made
                        ELSE [made EXCEPT !.resource =
                                Some(IF resourceValue >= IronBand THEN "iron"
                                     ELSE IF resourceValue >= CopperBand THEN "copper"
                                     ELSE IF resourceValue >= 0 THEN "coal"
                                     ELSE IF resourceValue >= StoneBand THEN "stone"
                                     ELSE "wood")] ] ] ]

generateChunk(gen, chunkX, chunkY) ==
  [ x |-> chunkX,
    y |-> chunkY,
    tiles |-> [ y \in SampleOffsets |->
                [ x \in SampleOffsets |->
                    generateTile(gen, chunkX * CHUNK_SIZE + x,
                                      chunkY * CHUNK_SIZE + y) ] ] ]

(***************************************************************************)
(* WorkerWorldGenerator (chunk worker replica)                             *)
(***************************************************************************)
\* mutant: the worker creates the resource and elevation fields in the other order
WorkerWorldGeneratorSwapped(seed) ==
  [ seed |-> seed,
    terrainNoise |-> 1,
    resourceNoise |-> 3,
    elevationNoise |-> 2,
    resourceSpawnNoise |-> 4,
    resourceAmountNoise |-> 5 ]

WorkerWorldGenerator(seed) ==
  [ seed |-> seed,
    terrainNoise |-> 1,
    resourceNoise |-> 2,
    elevationNoise |-> 3,
    resourceSpawnNoise |-> 4,
    resourceAmountNoise |-> 5 ]

\* a worker tile generator that applies the land rule of the elevation to
\* water tiles too
workerGenerateTileOneElevationRule(gen, tileX, tileY) ==
  LET made == generateTile(gen, tileX, tileY)
      elevationValue == Noise(gen.seed, gen.elevationNoise,
                              tileX * ElevationScale, tileY * ElevationScale)
  IN  [made EXCEPT !.elevation = IF elevationValue > 0 THEN 1 ELSE 0]

workerGenerateTile(gen, tileX, tileY) ==
  LET terrainValue == Noise(gen.seed, gen.terrainNoise,
                            tileX * TerrainScale, tileY * TerrainScale)
      elevationValue == Noise(gen.seed, gen.elevationNoise,
                              tileX * ElevationScale, tileY * ElevationScale)
      resourceValue == Noise(gen.seed, gen.resourceNoise,
                             tileX * ResourceScale, tileY * ResourceScale)
      resourceSpawnValue == Noise(gen.seed, gen.resourceSpawnNoise,
                                  tileX * SpawnScale, tileY * SpawnScale)
      resourceAmountValue == Noise(gen.seed, gen.resourceAmountNoise,
                                   tileX * AmountScale, tileY * AmountScale)
      type == IF terrainValue > LandThreshold THEN "land" ELSE "water"
      elevation == IF type = "land"
                   THEN (IF elevationValue > 0 THEN 1 ELSE 0)
                   ELSE (IF elevationValue > WaterElevationThreshold THEN 0 ELSE 1)
      spawns == type = "land" /\ resourceSpawnValue > SpawnThreshold
      resource == IF resourceValue > IronBand THEN "iron"
                  ELSE IF resourceValue > CopperBand THEN "copper"
                  ELSE IF resourceValue > 0 THEN "coal"
                  ELSE IF resourceValue > StoneBand THEN "stone"
                  ELSE "wood"
      resourceAmount ==
        (((resourceAmountValue + Milli) * AmountFactor) \div Milli) + AmountBase
  IN  [ type |-> type,
        elevation |-> elevation,
        resource |-> IF spawns THEN Some(resource) ELSE None,
        resourceAmount |-> IF spawns THEN Some(resourceAmount) ELSE None ]

workerGenerateChunk(gen, chunkX, chunkY) ==
  [ x |-> chunkX,
    y |-> chunkY,
    tiles |-> [ y \in SampleOffsets |->
                [ x \in SampleOffsets |->
                    workerGenerateTile(gen, chunkX * CHUNK_SIZE + x,
                                            chunkY * CHUNK_SIZE + y) ] ] ]

(***************************************************************************)
(* SpecGen: both generators applied to drawn inputs                        *)
(***************************************************************************)
InitGen ==
  /\ noisePhase \in Phases
  /\ gSeed \in SeedSet
  /\ gX \in ChunkXs
  /\ gY \in ChunkYs
  /\ gMain = None
  /\ gWorker = None
  /\ aTile = <<0, 0>>
  /\ addressed = None

GenMain ==
  /\ gMain' = Some(generateChunk(WorldGenerator(gSeed), gX, gY))
  /\ UNCHANGED <<noisePhase, gSeed, gX, gY, gWorker, aTile, addressed, gsmVars, wmVars, rendVars>>

GenWorker ==
  /\ gWorker' = Some(workerGenerateChunk(WorkerWorldGenerator(gSeed), gX, gY))
  /\ UNCHANGED <<noisePhase, gSeed, gX, gY, gMain, aTile, addressed, gsmVars, wmVars, rendVars>>

NextGen == GenMain \/ GenWorker

(***************************************************************************)
(* GameStateManager                                                        *)
(***************************************************************************)
Digits == <<"0", "1", "2", "3", "4", "5", "6", "7", "8", "9">>

RECURSIVE NatToStr(_)
NatToStr(n) ==
  IF n < 10 THEN Digits[n + 1]
  ELSE NatToStr(n \div 10) \o Digits[(n % 10) + 1]

IntToStr(n) == IF n < 0 THEN "-" \o NatToStr(0 - n) ELSE NatToStr(n)

getChunkKey(x, y) == IntToStr(x) \o "," \o IntToStr(y)

\* a division that rounds toward zero, as Math.trunc or a bitwise | 0 would
getChunkCoordinatesTruncating(tileX, tileY) ==
  LET trunc(t) == IF t >= 0 THEN t \div CHUNK_SIZE ELSE 0 - ((0 - t) \div CHUNK_SIZE)
  IN  [ chunkX |-> trunc(tileX), chunkY |-> trunc(tileY) ]

getChunkCoordinates(tileX, tileY) ==
  [ chunkX |-> tileX \div CHUNK_SIZE, chunkY |-> tileY \div CHUNK_SIZE ]

\* the world tiles handed to mineResource and canPlaceEntity
MaxTile == 33
TileRange == (0 - MaxTile)..MaxTile

\* mineResource / canPlaceEntity up to the tile lookup: the chunk of the tile,
\* the local offsets, the range test, and the tile read from the chunk
AddressTile ==
  /\ addressed = None
  /\ LET cc == getChunkCoordinates(aTile[1], aTile[2])
         chunk == generateChunk(worldGenerator, cc.chunkX, cc.chunkY)
         localTileX == aTile[1] - cc.chunkX * CHUNK_SIZE
         localTileY == aTile[2] - cc.chunkY * CHUNK_SIZE
         outOfRange == \/ localTileX < 0 \/ localTileX >= CHUNK_SIZE
                       \/ localTileY < 0 \/ localTileY >= CHUNK_SIZE
     IN  addressed' =
           Some([ chunkX |-> cc.chunkX, chunkY |-> cc.chunkY,
                  localTileX |-> localTileX, localTileY |-> localTileY,
                  outOfRange |-> outOfRange,
                  tile |-> IF ~outOfRange /\ localTileX \in SampleOffsets
                                          /\ localTileY \in SampleOffsets
                           THEN Some(chunk.tiles[localTileY][localTileX])
                           ELSE None ])
  /\ UNCHANGED <<noisePhase, gSeed, gX, gY, gMain, gWorker, aTile, gsmVars, wmVars, rendVars>>

\* the coordinates the callers of the model ask for
CallCoords == { <<0, 0>>, <<-1, 0>> }
MineTiles == { <<0, 0>>, <<-1, 31>>, <<1, 1>> }
KeySet == { getChunkKey(c[1], c[2]) : c \in CallCoords }

ResourceTypes == {"iron", "copper", "coal", "wood", "stone"}
DEFAULT_INVENTORY == [r \in ResourceTypes |-> 0]

PhaseOfWorld == [k \in Slots |-> 0]

\* a cache test that never finds the key
isCachedNever(key) == FALSE

isCached(key) == key \in DOMAIN chunks

isInFlight(key) == key \in DOMAIN chunkGenerationPromises

InitialCamera == [cameraX |-> 0, cameraY |-> 0, cameraZoom |-> 1]

\* notify() -> debouncedSave(): the save timer is armed again on every notify()
debouncedSave == saveTimeout' = (saveTimeout \/ notifyCount' # notifyCount)

MaxListeners == 2
Listeners == 1..MaxListeners

\* private listeners = new Set(); no unsubscribe function handed out yet
NoListeners ==
  /\ listeners = {}
  /\ listenerLog = [l \in Listeners |-> [handle |-> "none", calls |-> 0, seen |-> {}]]
  /\ returned = None

\* the GameRenderer after construction: nothing shown, nothing pending
RendererIdle ==
  /\ pendingChunks = {}
  /\ chunkContainers = [k \in KeySet |-> "none"]
  /\ chunkTextures = {}
  /\ renderBodies = [k \in KeySet |-> <<>>]
  /\ renderLog = [calls |-> 0, requested |-> [k \in KeySet |-> 0]]

\* a notify() that calls nobody
notifyNobody == UNCHANGED <<listeners, listenerLog>> /\ debouncedSave

\* notify(): listeners.forEach(listener => listener()), then debouncedSave();
\* once per notify() of the step, after the step's writes to state.chunks; a
\* listener re-reads the state, so its log keeps the keys it could read
notify ==
  /\ listenerLog' =
       [l \in Listeners |->
          IF l \in listeners /\ notifyCount' # notifyCount
          THEN [listenerLog[l] EXCEPT !.calls = @ + (notifyCount' - notifyCount),
                                      !.seen = DOMAIN chunks']
          ELSE listenerLog[l]]
  /\ UNCHANGED listeners
  /\ debouncedSave

InitGSM ==
  /\ worldSeed \in SeedSet
  /\ worldGenerator = WorldGenerator(worldSeed)
  /\ chunks = <<>>
  /\ inventory = DEFAULT_INVENTORY
  /\ chunkGenerationPromises = <<>>
  /\ promises = <<>>
  /\ microtasks = <<>>
  /\ callers = <<>>
  /\ genCalls = [k \in KeySet |-> 0]
  /\ chunkWrites = [k \in KeySet |-> 0]
  /\ epoch = [k \in KeySet |-> 0]
  /\ notifyCount = 0
  /\ syncOps = 0
  /\ resets = 0
  /\ lastOp = "constructor"
  /\ craftedItems = <<>>
  /\ camera = InitialCamera
  /\ entities = <<>>
  /\ selectedCraftingItem = None
  /\ localStorage = None
  /\ saveTimeout = FALSE
  /\ NoListeners
  /\ RendererIdle

\* getOrGenerateChunk(chunkX, chunkY)
GetOrGenerateChunk(chunkX, chunkY) ==
  LET key == getChunkKey(chunkX, chunkY)
      miss == ~isCached(key)
  IN  /\ syncOps < MaxSyncOps
      /\ chunks' = IF miss
                   THEN chunks @@ (key :> generateChunk(worldGenerator, chunkX, chunkY))
                   ELSE chunks
      /\ genCalls' = IF miss THEN [genCalls EXCEPT ![key] = @ + 1] ELSE genCalls
      /\ chunkWrites' = IF miss THEN [chunkWrites EXCEPT ![key] = @ + 1] ELSE chunkWrites
      /\ notifyCount' = IF miss THEN notifyCount + 1 ELSE notifyCount
      /\ syncOps' = syncOps + 1
      /\ lastOp' = "getOrGenerateChunk"
      /\ UNCHANGED <<noisePhase, genVars, rendVars, wmVars>>
      /\ UNCHANGED <<worldSeed, worldGenerator, inventory, chunkGenerationPromises,
                     promises, microtasks, callers, epoch, resets>>
      /\ UNCHANGED playerVars /\ notify /\ returned' = Some(chunks'[key])

\* getOrGenerateChunkAsync(chunkX, chunkY): the synchronous part of the call
GetOrGenerateChunkAsync(chunkX, chunkY) ==
  LET key == getChunkKey(chunkX, chunkY)
      p == Len(promises) + 1
  IN  /\ Len(callers) < MaxAsyncCalls
      /\ lastOp' = "getOrGenerateChunkAsync"
      /\ UNCHANGED <<noisePhase, genVars, rendVars, wmVars>>
      /\ IF isCached(key)
         THEN /\ callers' = Append(callers,
                    [ key |-> key, cached |-> TRUE, epoch |-> epoch[key], promise |-> 0,
                      gensAtCall |-> genCalls[key],
                      outcome |-> "fulfilled", value |-> Some(chunks[key]) ])
              /\ UNCHANGED <<chunkGenerationPromises, promises, microtasks>>
         ELSE IF isInFlight(key)
         THEN LET q == chunkGenerationPromises[key]
              IN  /\ callers' = Append(callers,
                        [ key |-> key, cached |-> FALSE, epoch |-> epoch[key],
                          gensAtCall |-> genCalls[key],
                          promise |-> q, outcome |-> promises[q].state,
                          value |-> promises[q].value ])
                  /\ UNCHANGED <<chunkGenerationPromises, promises, microtasks>>
         ELSE /\ promises' = Append(promises,
                    [ key |-> key, state |-> "pending", value |-> None, gens |-> 0,
                      gensAtDone |-> 0 ])
              /\ microtasks' = Append(microtasks,
                    [ promise |-> p, key |-> key, chunkX |-> chunkX, chunkY |-> chunkY ])
              /\ chunkGenerationPromises' = chunkGenerationPromises @@ (key :> p)
              /\ callers' = Append(callers,
                    [ key |-> key, cached |-> FALSE, epoch |-> epoch[key], promise |-> p,
                      gensAtCall |-> genCalls[key],
                      outcome |-> "pending", value |-> None ])
      /\ UNCHANGED <<worldSeed, worldGenerator, chunks, inventory, genCalls,
                     chunkWrites, epoch, notifyCount, syncOps, resets>>
      /\ UNCHANGED playerVars /\ notify /\ returned' = None

\* a Map.delete that deletes every key but the one it was given
WithoutKeyOfOthers(f, key) == [k \in DOMAIN f \cap {key} |-> f[k]]

\* a Map.delete that deletes nothing
WithoutKeyKeepsAll(f, key) == f

WithoutKey(f, key) == [k \in DOMAIN f \ {key} |-> f[k]]

Settle(cs, p, how, value) ==
  [ i \in 1..Len(cs) |->
      IF cs[i].promise = p /\ cs[i].outcome = "pending"
      THEN [cs[i] EXCEPT !.outcome = how, !.value = value]
      ELSE cs[i] ]

\* the callback queued by Promise.resolve().then(...) runs
CompleteAsync ==
  /\ microtasks # <<>>
  /\ LET t == Head(microtasks)
         chunk == generateChunk(worldGenerator, t.chunkX, t.chunkY)
     IN  /\ microtasks' = Tail(microtasks)
         /\ chunks' = [k \in DOMAIN chunks \cup {t.key} |->
                         IF k = t.key THEN chunk ELSE chunks[k]]
         /\ chunkGenerationPromises' = WithoutKey(chunkGenerationPromises, t.key)
         /\ promises' = [promises EXCEPT ![t.promise] =
                           [@ EXCEPT !.state = "fulfilled", !.value = Some(chunk),
                                     !.gens = @ + 1,
                                     !.gensAtDone = genCalls[t.key] + 1]]
         /\ callers' = Settle(callers, t.promise, "fulfilled", Some(chunk))
         /\ genCalls' = [genCalls EXCEPT ![t.key] = @ + 1]
         /\ chunkWrites' = [chunkWrites EXCEPT ![t.key] = @ + 1]
         /\ epoch' = [epoch EXCEPT ![t.key] = @ + 1]
         /\ notifyCount' = notifyCount + 1
  /\ lastOp' = "asyncCompletion"
  /\ UNCHANGED <<noisePhase, genVars, rendVars, wmVars>>
  /\ UNCHANGED <<worldSeed, worldGenerator, inventory, syncOps, resets>>
  /\ UNCHANGED playerVars /\ notify /\ returned' = None

\* the same callback when worldGenerator.generateChunk throws
CompleteAsyncThrows ==
  /\ microtasks # <<>>
  /\ LET t == Head(microtasks)
     IN  /\ microtasks' = Tail(microtasks)
         /\ promises' = [promises EXCEPT ![t.promise] =
                           [@ EXCEPT !.state = "rejected", !.gens = @ + 1,
                                     !.gensAtDone = genCalls[t.key] + 1]]
         /\ callers' = Settle(callers, t.promise, "rejected", None)
         /\ genCalls' = [genCalls EXCEPT ![t.key] = @ + 1]
         /\ epoch' = [epoch EXCEPT ![t.key] = @ + 1]
  /\ lastOp' = "asyncFailure"
  /\ UNCHANGED <<noisePhase, genVars, rendVars, wmVars>>
  /\ UNCHANGED <<worldSeed, worldGenerator, chunks, inventory, chunkGenerationPromises,
                 chunkWrites, notifyCount, syncOps, resets>>
  /\ UNCHANGED playerVars /\ notify /\ returned' = None

\* mineResource(tileX, tileY)
MineResource(tileX, tileY) ==
  LET cc == getChunkCoordinates(tileX, tileY)
      key == getChunkKey(cc.chunkX, cc.chunkY)
      miss == ~isCached(key)
      chunk == IF miss THEN generateChunk(worldGenerator, cc.chunkX, cc.chunkY)
               ELSE chunks[key]
      localTileX == tileX - cc.chunkX * CHUNK_SIZE
      localTileY == tileY - cc.chunkY * CHUNK_SIZE
      inRange == /\ localTileX >= 0 /\ localTileX < CHUNK_SIZE
                 /\ localTileY >= 0 /\ localTileY < CHUNK_SIZE
      tile == chunk.tiles[localTileY][localTileX]
      mined == inRange /\ tile.resource # None /\ tile.resourceAmount # None
  IN  /\ syncOps < MaxSyncOps
      /\ chunks' = IF miss THEN chunks @@ (key :> chunk) ELSE chunks
      /\ genCalls' = IF miss THEN [genCalls EXCEPT ![key] = @ + 1] ELSE genCalls
      /\ chunkWrites' = IF miss THEN [chunkWrites EXCEPT ![key] = @ + 1] ELSE chunkWrites
      /\ inventory' = IF mined
                      THEN [inventory EXCEPT ![tile.resource[1]] = @ + 1]
                      ELSE inventory
      /\ notifyCount' = notifyCount + (IF miss THEN 1 ELSE 0) + (IF mined THEN 1 ELSE 0)
      /\ syncOps' = syncOps + 1
      /\ lastOp' = "mineResource"
      /\ UNCHANGED <<noisePhase, genVars, rendVars, wmVars>>
      /\ UNCHANGED <<worldSeed, worldGenerator, chunkGenerationPromises, promises,
                     microtasks, callers, epoch, resets>>
      /\ UNCHANGED playerVars /\ notify /\ returned' = None

\* a resetState() that keeps the chunk cache of the old world
ResetStateKeepsChunks ==
  /\ resets < MaxResets
  /\ \E s \in SeedSet \ {worldSeed} :
       /\ worldSeed' = s
       /\ worldGenerator' = WorldGenerator(s)
  /\ chunks' = chunks
  /\ inventory' = DEFAULT_INVENTORY
  /\ chunkGenerationPromises' = <<>>
  /\ notifyCount' = notifyCount + 1
  /\ resets' = resets + 1
  /\ lastOp' = "resetState"
  /\ craftedItems' = <<>>
  /\ camera' = InitialCamera
  /\ entities' = <<>>
  /\ selectedCraftingItem' = None
  /\ localStorage' = None
  /\ notify /\ returned' = None
  /\ UNCHANGED <<noisePhase, genVars, rendVars, wmVars>>
  /\ UNCHANGED <<promises, microtasks, callers, genCalls, chunkWrites, epoch, syncOps>>

\* resetState(): generateSeed() returns a seed that was not in use
ResetState ==
  /\ resets < MaxResets
  /\ \E s \in SeedSet \ {worldSeed} :
       /\ worldSeed' = s
       /\ worldGenerator' = WorldGenerator(s)
  /\ chunks' = <<>>
  /\ inventory' = DEFAULT_INVENTORY
  /\ chunkGenerationPromises' = <<>>
  /\ notifyCount' = notifyCount + 1
  /\ resets' = resets + 1
  /\ lastOp' = "resetState"
  /\ craftedItems' = <<>>
  /\ camera' = InitialCamera
  /\ entities' = <<>>
  /\ selectedCraftingItem' = None
  /\ localStorage' = None
  /\ notify /\ returned' = None
  /\ UNCHANGED <<noisePhase, genVars, rendVars, wmVars>>
  /\ UNCHANGED <<promises, microtasks, callers, genCalls, chunkWrites, epoch, syncOps>>

TILE_SIZE == 32

\* what the player's controls pass to the GameStateManager
Recipes == {"furnace", "chest"}
CameraInputs == { <<0, 0, 1>>, <<2 * TILE_SIZE, 0 - TILE_SIZE, 2>> }
PlaceInputs == { <<"furnace", 1, 1>>, <<"furnace", 0, 1>> }
SelectInputs == {None, Some("furnace")}

\* a furnace recipe that asks for one stone
getCraftingRecipeOfOneStone(recipe) ==
  IF recipe = "furnace"
  THEN Some([inputs |-> [stone |-> 1], output |-> "furnace", outputAmount |-> 1])
  ELSE None

getCraftingRecipe(recipe) ==
  IF recipe = "furnace"
  THEN Some([inputs |-> [stone |-> 5], output |-> "furnace", outputAmount |-> 1])
  ELSE None

ENTITY_DEFINITIONS == [furnace |-> [width |-> 2, height |-> 2]]

\* craftItem(recipe)
CraftItem(recipe) ==
  LET recipeData == getCraftingRecipe(recipe)
      crafted == /\ recipeData # None
                 /\ \A r \in DOMAIN recipeData[1].inputs :
                      inventory[r] >= recipeData[1].inputs[r]
  IN  /\ syncOps < MaxSyncOps
      /\ inventory' =
           IF crafted
           THEN [r \in DOMAIN inventory |->
                   IF r \in DOMAIN recipeData[1].inputs
                   THEN inventory[r] - recipeData[1].inputs[r]
                   ELSE inventory[r]]
           ELSE inventory
      /\ craftedItems' =
           IF crafted
           THEN LET out == recipeData[1].output
                    had == IF out \in DOMAIN craftedItems THEN craftedItems[out] ELSE 0
                IN  (out :> had + recipeData[1].outputAmount) @@ craftedItems
           ELSE craftedItems
      /\ notifyCount' = IF crafted THEN notifyCount + 1 ELSE notifyCount
      /\ syncOps' = syncOps + 1
      /\ lastOp' = "craftItem"
      /\ UNCHANGED <<noisePhase, genVars, rendVars, wmVars>>
      /\ UNCHANGED <<worldSeed, worldGenerator, chunks, chunkGenerationPromises,
                     promises, microtasks, callers, genCalls, chunkWrites, epoch,
                     resets>>
      /\ UNCHANGED <<camera, entities, selectedCraftingItem, localStorage>>
      /\ notify /\ returned' = None

\* updateCamera(worldPixelX, worldPixelY, zoom), on whole numbers of tiles
UpdateCamera(worldPixelX, worldPixelY, zoom) ==
  /\ syncOps < MaxSyncOps
  /\ camera' = [cameraX |-> worldPixelX \div TILE_SIZE,
                cameraY |-> worldPixelY \div TILE_SIZE,
                cameraZoom |-> zoom]
  /\ notifyCount' = notifyCount + 1
  /\ syncOps' = syncOps + 1
  /\ lastOp' = "updateCamera"
  /\ UNCHANGED <<noisePhase, genVars, rendVars, wmVars>>
  /\ UNCHANGED <<worldSeed, worldGenerator, chunks, inventory, chunkGenerationPromises,
                 promises, microtasks, callers, genCalls, chunkWrites, epoch, resets>>
  /\ UNCHANGED <<craftedItems, entities, selectedCraftingItem, localStorage>>
  /\ notify /\ returned' = None

\* setSelectedCraftingItem(entityType)
SetSelectedCraftingItem(entityType) ==
  /\ syncOps < MaxSyncOps
  /\ selectedCraftingItem' = entityType
  /\ notifyCount' = notifyCount + 1
  /\ syncOps' = syncOps + 1
  /\ lastOp' = "setSelectedCraftingItem"
  /\ UNCHANGED <<noisePhase, genVars, rendVars, wmVars>>
  /\ UNCHANGED <<worldSeed, worldGenerator, chunks, inventory, chunkGenerationPromises,
                 promises, microtasks, callers, genCalls, chunkWrites, epoch, resets>>
  /\ UNCHANGED <<craftedItems, camera, entities, localStorage>>
  /\ notify /\ returned' = None

\* an overlap test that only finds an entity placed at the very same corner
entitiesOverlapSameCorner(x1, y1, w1, h1, x2, y2, w2, h2) ==
  x1 = x2 /\ y1 = y2

entitiesOverlap(x1, y1, w1, h1, x2, y2, w2, h2) ==
  ~(x1 + w1 <= x2 \/ x2 + w2 <= x1 \/ y1 + h1 <= y2 \/ y2 + h2 <= y1)

\* placeEntity(entityType, centerX, centerY) with canPlaceEntity: the tiles under the
\* entity are visited row by row, each through getOrGenerateChunk, up to the first
\* water tile
PlaceEntity(entityType, centerX, centerY) ==
  LET definition == ENTITY_DEFINITIONS[entityType]
      width  == definition.width
      height == definition.height
      startX == centerX - (width \div 2)
      startY == centerY - (height \div 2)
      overlap == \E i \in DOMAIN entities :
                   entitiesOverlap(startX, startY, width, height,
                                   entities[i].x, entities[i].y,
                                   entities[i].width, entities[i].height)
      tileAt(k) == <<startX + ((k - 1) % width), startY + ((k - 1) \div width)>>
      coords(k) == getChunkCoordinates(tileAt(k)[1], tileAt(k)[2])
      keyAt(k) == getChunkKey(coords(k).chunkX, coords(k).chunkY)
      chunkAt(k) == IF isCached(keyAt(k)) THEN chunks[keyAt(k)]
                    ELSE generateChunk(worldGenerator, coords(k).chunkX, coords(k).chunkY)
      water(k) == chunkAt(k).tiles[tileAt(k)[2] - coords(k).chunkY * CHUNK_SIZE]
                                  [tileAt(k)[1] - coords(k).chunkX * CHUNK_SIZE].type
                    = "water"
      all == 1..(width * height)
      visited == IF overlap THEN {}
                 ELSE {k \in all : \A j \in 1..(k - 1) : ~water(j)}
      placed == ~overlap /\ \A k \in all : ~water(k)
      newKeys == {keyAt(k) : k \in visited} \ DOMAIN chunks
      generated == [key \in newKeys |-> chunkAt(CHOOSE k \in visited : keyAt(k) = key)]
  IN  /\ syncOps < MaxSyncOps
      /\ chunks' = chunks @@ generated
      /\ genCalls' = [key \in DOMAIN genCalls |->
                        genCalls[key] + (IF key \in newKeys THEN 1 ELSE 0)]
      /\ chunkWrites' = [key \in DOMAIN chunkWrites |->
                           chunkWrites[key] + (IF key \in newKeys THEN 1 ELSE 0)]
      /\ entities' = IF placed
                     THEN Append(entities, [type |-> entityType, x |-> startX,
                                            y |-> startY, width |-> width,
                                            height |-> height])
                     ELSE entities
      /\ notifyCount' = notifyCount + Cardinality(newKeys) + (IF placed THEN 1 ELSE 0)
      /\ syncOps' = syncOps + 1
      /\ lastOp' = "placeEntity"
      /\ UNCHANGED <<noisePhase, genVars, rendVars, wmVars>>
      /\ UNCHANGED <<worldSeed, worldGenerator, inventory, chunkGenerationPromises,
                     promises, microtasks, callers, epoch, resets>>
      /\ UNCHANGED <<craftedItems, camera, selectedCraftingItem, localStorage>>
      /\ notify /\ returned' = Some(placed)

\* a save that writes the inventory of a new game
essentialStateOfNewGame ==
  [inventory |-> DEFAULT_INVENTORY, craftedItems |-> craftedItems,
   cameraX |-> camera.cameraX, cameraY |-> camera.cameraY,
   cameraZoom |-> camera.cameraZoom, worldSeed |-> worldSeed,
   entities |-> entities, selectedCraftingItem |-> selectedCraftingItem]

\* what saveState() writes
essentialState ==
  [inventory |-> inventory, craftedItems |-> craftedItems,
   cameraX |-> camera.cameraX, cameraY |-> camera.cameraY,
   cameraZoom |-> camera.cameraZoom, worldSeed |-> worldSeed,
   entities |-> entities, selectedCraftingItem |-> selectedCraftingItem]

\* a save that also draws a new world seed
SaveStateReseeds ==
  /\ saveTimeout
  /\ \E s \in SeedSet \ {worldSeed} :
       /\ worldSeed' = s
       /\ worldGenerator' = WorldGenerator(s)
  /\ localStorage' = Some(essentialState)
  /\ saveTimeout' = FALSE
  /\ lastOp' = "saveState"
  /\ UNCHANGED <<noisePhase, genVars, rendVars, wmVars>>
  /\ UNCHANGED <<chunks, inventory, chunkGenerationPromises,
                 promises, microtasks, callers, genCalls, chunkWrites, epoch,
                 notifyCount, syncOps, resets>>
  /\ UNCHANGED <<craftedItems, camera, entities, selectedCraftingItem>>
  /\ UNCHANGED <<listeners, listenerLog>> /\ returned' = None

\* the debounced save timer fires: saveState(); setItem succeeds, at once or after
\* removeItem, or fails both times
SaveState ==
  /\ saveTimeout
  /\ \E stored \in BOOLEAN :
       localStorage' = IF stored THEN Some(essentialState) ELSE None
  /\ saveTimeout' = FALSE
  /\ lastOp' = "saveState"
  /\ UNCHANGED <<noisePhase, genVars, rendVars, wmVars>>
  /\ UNCHANGED <<worldSeed, worldGenerator, chunks, inventory, chunkGenerationPromises,
                 promises, microtasks, callers, genCalls, chunkWrites, epoch,
                 notifyCount, syncOps, resets>>
  /\ UNCHANGED <<craftedItems, camera, entities, selectedCraftingItem>>
  /\ UNCHANGED <<listeners, listenerLog>> /\ returned' = None

\* a save written by an earlier session of the game
SavedStates ==
  { [inventory |-> [DEFAULT_INVENTORY EXCEPT !["stone"] = 5], craftedItems |-> <<>>,
     cameraX |-> 0, cameraY |-> 0, cameraZoom |-> 1, worldSeed |-> Seeds[2],
     entities |-> <<>>, selectedCraftingItem |-> None] }

\* loadState(): a missing field, or a falsy one, gets its default
loadState(saved, fresh) ==
  LET parsed == saved[1]
      \* parsed.name || default
      Or(name, falsy, default) ==
        IF name \in DOMAIN parsed /\ parsed[name] \notin falsy THEN parsed[name]
        ELSE default
  IN  IF saved = None THEN None
      ELSE Some([chunks |-> <<>>,
                 inventory |-> Or("inventory", {}, DEFAULT_INVENTORY),
                 craftedItems |-> Or("craftedItems", {}, <<>>),
                 cameraX |-> Or("cameraX", {0}, 0),
                 cameraY |-> Or("cameraY", {0}, 0),
                 cameraZoom |-> Or("cameraZoom", {0}, 1),
                 worldSeed |-> Or("worldSeed", {""}, fresh),
                 entities |-> Or("entities", {}, <<>>),
                 selectedCraftingItem |-> Or("selectedCraftingItem", {}, None)])

\* a constructor that builds the generator from a new seed, whatever was loaded
InitLoadedGeneratorOfNewSeed ==
  /\ localStorage \in {None} \cup {Some(st) : st \in SavedStates}
  /\ LET loaded == loadState(localStorage, Seeds[1])
     IN  IF loaded = None
         THEN /\ worldSeed = Seeds[1]
              /\ inventory = DEFAULT_INVENTORY
              /\ craftedItems = <<>>
              /\ camera = InitialCamera
              /\ entities = <<>>
              /\ selectedCraftingItem = None
         ELSE /\ worldSeed = loaded[1].worldSeed
              /\ inventory = loaded[1].inventory
              /\ craftedItems = loaded[1].craftedItems
              /\ camera = [cameraX |-> loaded[1].cameraX, cameraY |-> loaded[1].cameraY,
                           cameraZoom |-> loaded[1].cameraZoom]
              /\ entities = loaded[1].entities
              /\ selectedCraftingItem = loaded[1].selectedCraftingItem
  /\ worldGenerator = WorldGenerator(Seeds[1])
  /\ chunks = <<>>
  /\ chunkGenerationPromises = <<>>
  /\ promises = <<>>
  /\ microtasks = <<>>
  /\ callers = <<>>
  /\ genCalls = [k \in KeySet |-> 0]
  /\ chunkWrites = [k \in KeySet |-> 0]
  /\ epoch = [k \in KeySet |-> 0]
  /\ notifyCount = 0
  /\ syncOps = 0
  /\ resets = 0
  /\ lastOp = "constructor"
  /\ saveTimeout = FALSE
  /\ NoListeners
  /\ RendererIdle

\* the constructor: this.state = this.loadState() || this.createInitialState()
InitLoaded ==
  /\ localStorage \in {None} \cup {Some(st) : st \in SavedStates}
  /\ LET loaded == loadState(localStorage, Seeds[1])
     IN  IF loaded = None
         THEN /\ worldSeed = Seeds[1]
              /\ inventory = DEFAULT_INVENTORY
              /\ craftedItems = <<>>
              /\ camera = InitialCamera
              /\ entities = <<>>
              /\ selectedCraftingItem = None
         ELSE /\ worldSeed = loaded[1].worldSeed
              /\ inventory = loaded[1].inventory
              /\ craftedItems = loaded[1].craftedItems
              /\ camera = [cameraX |-> loaded[1].cameraX, cameraY |-> loaded[1].cameraY,
                           cameraZoom |-> loaded[1].cameraZoom]
              /\ entities = loaded[1].entities
              /\ selectedCraftingItem = loaded[1].selectedCraftingItem
  /\ worldGenerator = WorldGenerator(worldSeed)
  /\ chunks = <<>>
  /\ chunkGenerationPromises = <<>>
  /\ promises = <<>>
  /\ microtasks = <<>>
  /\ callers = <<>>
  /\ genCalls = [k \in KeySet |-> 0]
  /\ chunkWrites = [k \in KeySet |-> 0]
  /\ epoch = [k \in KeySet |-> 0]
  /\ notifyCount = 0
  /\ syncOps = 0
  /\ resets = 0
  /\ lastOp = "constructor"
  /\ saveTimeout = FALSE
  /\ NoListeners
  /\ RendererIdle

\* getOrGenerateChunkAsync called next to the player's operations
AsyncCallOfPlayer(chunkX, chunkY) ==
  /\ Len(callers) < MaxPlayerAsyncCalls
  /\ GetOrGenerateChunkAsync(chunkX, chunkY)

NextPlayer ==
  \/ \E c \in CallCoords : GetOrGenerateChunk(c[1], c[2])
  \/ \E c \in CallCoords : AsyncCallOfPlayer(c[1], c[2])
  \/ CompleteAsync
  \/ \E t \in MineTiles : MineResource(t[1], t[2])
  \/ ResetState
  \/ \E r \in Recipes : CraftItem(r)
  \/ \E c \in CameraInputs : UpdateCamera(c[1], c[2], c[3])
  \/ \E e \in SelectInputs : SetSelectedCraftingItem(e)
  \/ \E e \in PlaceInputs : PlaceEntity(e[1], e[2], e[3])
  \/ SaveState

\* subscribe(listener): every caller passes a closure of its own, so a listener
\* is added once; the call hands back the unsubscribe function
Subscribe(l) ==
  /\ listenerLog[l].handle = "none"
  /\ listeners' = listeners \cup {l}
  /\ listenerLog' = [listenerLog EXCEPT ![l].handle = "returned"]
  /\ lastOp' = "subscribe"
  /\ returned' = None
  /\ UNCHANGED <<noisePhase, genVars, rendVars, wmVars>>
  /\ UNCHANGED <<worldSeed, worldGenerator, chunks, inventory, chunkGenerationPromises,
                 promises, microtasks, callers, genCalls, chunkWrites, epoch,
                 notifyCount, syncOps, resets, saveTimeout>>
  /\ UNCHANGED playerVars

\* the function returned by subscribe(listener) is called
Unsubscribe(l) ==
  /\ listenerLog[l].handle # "none"
  /\ listeners' = listeners \ {l}
  /\ listenerLog' = [listenerLog EXCEPT ![l].handle = "called"]
  /\ lastOp' = "unsubscribe"
  /\ returned' = None
  /\ UNCHANGED <<noisePhase, genVars, rendVars, wmVars>>
  /\ UNCHANGED <<worldSeed, worldGenerator, chunks, inventory, chunkGenerationPromises,
                 promises, microtasks, callers, genCalls, chunkWrites, epoch,
                 notifyCount, syncOps, resets, saveTimeout>>
  /\ UNCHANGED playerVars

NextListeners ==
  \/ \E l \in Listeners : Subscribe(l)
  \/ \E l \in Listeners : Unsubscribe(l)
  \/ \E c \in CallCoords : GetOrGenerateChunk(c[1], c[2])
  \/ \E c \in CallCoords : AsyncCallOfPlayer(c[1], c[2])
  \/ CompleteAsync
  \/ ResetState

NextGSM ==
  \/ \E c \in CallCoords : GetOrGenerateChunk(c[1], c[2])
  \/ \E c \in CallCoords : GetOrGenerateChunkAsync(c[1], c[2])
  \/ CompleteAsync
  \/ \E t \in MineTiles : MineResource(t[1], t[2])
  \/ ResetState

(***************************************************************************)
(* WorkerManager, chunk workers, texture workers                           *)
(***************************************************************************)
Max(a, b) == IF a > b THEN a ELSE b

numChunkWorkers == Max(1, hardwareConcurrency \div 2)
numTextureWorkers == Max(1, hardwareConcurrency \div 4)

\* an id that leaves the counter out
ChunkIdWithoutCounter(n) == "chunk_"

ChunkId(n) == "chunk_" \o NatToStr(n)
TextureId(n) == "texture_" \o NatToStr(n)

\* what the callers of the model pass to the WorkerManager
ChunkRequestInputs ==
  { <<0, 0, "abc">>, <<0, 0, "xyz">>, <<-1, 0, "abc">>, <<0, -1, "abc">>,
    <<0, 0, "">> }
TileVariant == [baseColor |-> "#8B7355", noiseColor |-> "#6B5645", noiseOpacity |-> 300]
ResourceColor == "#B87333"

ChunkWorkerRequestSchema(r) ==
  /\ r.id # ""
  /\ r.chunkX \in Int
  /\ r.chunkY \in Int
  /\ r.seed # ""

ChunkSchema(c) == DOMAIN c = {"x", "y", "tiles"} /\ c.x \in Int /\ c.y \in Int

ChunkWorkerResponseSchema(m) ==
  /\ m.id # ""
  /\ ChunkSchema(m.chunk)

TextureWorkerResponseSchema(m) ==
  \/ m.type = "texture" /\ m.id # ""
  \/ m.type \in {"pregenerate-complete", "pregenerate-error"}

PregenerateRequest == [type |-> "pregenerate", id |-> "undefined", input |-> None]

\* the WorkerManager after its constructor ran initializeWorkers()
initializeWorkers ==
  /\ chunkWorkers = [i \in 1..numChunkWorkers |-> i]
  /\ textureWorkers = [i \in 1..numTextureWorkers |-> i]
  /\ chunkRequestId = 0
  /\ textureRequestId = 0
  /\ pendingChunkRequests = {}
  /\ pendingTextureRequests = {}
  /\ chunkInbox = [w \in 1..numChunkWorkers |-> <<>>]
  /\ chunkOutbox = [w \in 1..numChunkWorkers |-> <<>>]
  /\ textureInbox = [w \in 1..numTextureWorkers |-> <<PregenerateRequest>>]
  /\ textureOutbox = [w \in 1..numTextureWorkers |-> <<>>]
  /\ timers = {}
  /\ generator = [w \in 1..numChunkWorkers |-> None]
  /\ chunkCache = [w \in 1..numChunkWorkers |-> <<>>]
  /\ pregenerateHandlers = 1..numTextureWorkers
  /\ requests = <<>>
  /\ outcome = <<>>

InitWM ==
  /\ hardwareConcurrency \in {2, HardwareConcurrency}
  /\ initializeWorkers

Unsettled == [state |-> "pending", value |-> None, error |-> None, by |-> "", calls |-> 0]

\* resolve(value) / reject(error) of the promise of request id; a promise keeps its
\* first settlement
settle(o, id, state, value, error, by) ==
  [o EXCEPT ![id] =
     IF @.state = "pending"
     THEN [state |-> state, value |-> value, error |-> error, by |-> by,
           calls |-> @.calls + 1]
     ELSE [@ EXCEPT !.calls = @ + 1]]

getAvailableChunkWorker(requestId) ==
  chunkWorkers[(requestId % Len(chunkWorkers)) + 1]

\* a selection that ignores the request counter
getAvailableTextureWorkerFirst(requestId) == textureWorkers[1]

getAvailableTextureWorker(requestId) ==
  textureWorkers[(requestId % Len(textureWorkers)) + 1]

\* WorkerManager.generateChunk(chunkX, chunkY, seed)
GenerateChunk(chunkX, chunkY, seed) ==
  LET n == chunkRequestId + 1
      id == ChunkId(n)
      request == [id |-> id, chunkX |-> chunkX, chunkY |-> chunkY, seed |-> seed]
      valid == ChunkWorkerRequestSchema(request)
      posted == valid /\ chunkWorkers # <<>>
  IN  /\ chunkRequestId < MaxChunkRequests
      /\ chunkRequestId + textureRequestId < MaxRequests
      /\ chunkRequestId' = n
      /\ pendingChunkRequests' = pendingChunkRequests \cup {id}
      /\ IF posted
         THEN LET worker == getAvailableChunkWorker(n)
              IN  /\ chunkInbox' = [chunkInbox EXCEPT ![worker] = Append(@, request)]
                  /\ timers' = timers \cup {[pool |-> "chunk", id |-> id]}
                  /\ requests' = requests @@
                       (id :> [pool |-> "chunk", kind |-> "chunk", input |-> request,
                               worker |-> worker, posted |-> TRUE])
                  /\ outcome' = outcome @@ (id :> Unsettled)
         ELSE /\ requests' = requests @@
                   (id :> [pool |-> "chunk", kind |-> "chunk", input |-> request,
                           worker |-> 0, posted |-> FALSE])
              /\ outcome' = outcome @@
                   (id :> [Unsettled EXCEPT !.state = "rejected",
                             !.error = Some(IF valid THEN "TypeError"
                                            ELSE "Invalid chunk request"),
                             !.by = "executor", !.calls = 1])
              /\ UNCHANGED <<chunkInbox, timers>>
      /\ UNCHANGED <<hardwareConcurrency, chunkWorkers, textureWorkers, textureRequestId,
                     pendingTextureRequests, chunkOutbox, textureInbox, textureOutbox,
                     generator, chunkCache, pregenerateHandlers>>
      /\ UNCHANGED <<noisePhase, genVars, rendVars, gsmVars>>

\* generateTileTexture / generateResourceTexture / generateChunkTexture
GenerateTexture(kind, input) ==
  LET n == textureRequestId + 1
      id == TextureId(n)
      request == [type |-> kind, id |-> id, input |-> Some(input)]
      posted == textureWorkers # <<>>
  IN  /\ textureRequestId < MaxTextureRequests
      /\ chunkRequestId + textureRequestId < MaxRequests
      /\ textureRequestId' = n
      /\ pendingTextureRequests' = pendingTextureRequests \cup {id}
      /\ IF posted
         THEN LET worker == getAvailableTextureWorker(n)
              IN  /\ textureInbox' = [textureInbox EXCEPT ![worker] = Append(@, request)]
                  /\ timers' = timers \cup {[pool |-> "texture", id |-> id]}
                  /\ requests' = requests @@
                       (id :> [pool |-> "texture", kind |-> kind, input |-> request,
                               worker |-> worker, posted |-> TRUE])
                  /\ outcome' = outcome @@ (id :> Unsettled)
         ELSE /\ requests' = requests @@
                   (id :> [pool |-> "texture", kind |-> kind, input |-> request,
                           worker |-> 0, posted |-> FALSE])
              /\ outcome' = outcome @@
                   (id :> [Unsettled EXCEPT !.state = "rejected",
                             !.error = Some("TypeError"),
                             !.by = "executor", !.calls = 1])
              /\ UNCHANGED <<textureInbox, timers>>
      /\ UNCHANGED <<hardwareConcurrency, chunkWorkers, textureWorkers, chunkRequestId,
                     pendingChunkRequests, chunkInbox, chunkOutbox, textureOutbox,
                     generator, chunkCache, pregenerateHandlers>>
      /\ UNCHANGED <<noisePhase, genVars, rendVars, gsmVars>>

GenerateTileTexture == GenerateTexture("tile", TileVariant)

GenerateResourceTexture == GenerateTexture("resource", ResourceColor)

GenerateChunkTexture ==
  GenerateTexture("chunk", generateChunk(WorldGenerator(Seeds[1]), 0, 0))

\* the chunk worker's message listener, on the oldest message posted to worker w
constructorName(gen) == "WorkerWorldGenerator"

workerConstructsGenerator(w) ==
  generator[w] = None \/ constructorName(generator[w][1]) = "WorkerWorldGenerator"

ErrorChunk == [x |-> 0, y |-> 0, tiles |-> <<>>]

\* a cache key that leaves chunkY out
cacheKeyOfColumn(chunkX, chunkY) == IntToStr(chunkX)

\* `${chunkX},${chunkY}`
cacheKeyOf(chunkX, chunkY) == IntToStr(chunkX) \o "," \o IntToStr(chunkY)

\* a chunk worker that answers and never stores what it generated
ChunkWorkerMessageWithoutMemo(w, throws) ==
  /\ chunkInbox[w] # <<>>
  /\ LET m == Head(chunkInbox[w])
         gen == IF workerConstructsGenerator(w)
                THEN WorkerWorldGenerator(m.seed)
                ELSE generator[w][1]
         cacheKey == cacheKeyOf(m.chunkX, m.chunkY)
         hit == cacheKey \in DOMAIN chunkCache[w]
         chunk == IF hit THEN chunkCache[w][cacheKey]
                  ELSE workerGenerateChunk(gen, m.chunkX, m.chunkY)
         response == IF throws
                     THEN [id |-> m.id, chunk |-> ErrorChunk,
                           error |-> Some("generation failed")]
                     ELSE [id |-> m.id, chunk |-> chunk, error |-> None]
     IN  /\ chunkInbox' = [chunkInbox EXCEPT ![w] = Tail(@)]
         /\ generator' = [generator EXCEPT ![w] = Some(gen)]
         /\ chunkCache' = chunkCache
         /\ chunkOutbox' = [chunkOutbox EXCEPT ![w] = Append(@, response)]
  /\ UNCHANGED <<hardwareConcurrency, chunkWorkers, textureWorkers, chunkRequestId,
                 textureRequestId, pendingChunkRequests, pendingTextureRequests,
                 textureInbox, textureOutbox, timers, pregenerateHandlers,
                 requests, outcome>>
  /\ UNCHANGED <<noisePhase, genVars, rendVars, gsmVars>>

ChunkWorkerMessage(w, throws) ==
  /\ chunkInbox[w] # <<>>
  /\ LET m == Head(chunkInbox[w])
         gen == IF workerConstructsGenerator(w)
                THEN WorkerWorldGenerator(m.seed)
                ELSE generator[w][1]
         cacheKey == cacheKeyOf(m.chunkX, m.chunkY)
         hit == cacheKey \in DOMAIN chunkCache[w]
         chunk == IF hit THEN chunkCache[w][cacheKey]
                  ELSE workerGenerateChunk(gen, m.chunkX, m.chunkY)
         response == IF throws
                     THEN [id |-> m.id, chunk |-> ErrorChunk,
                           error |-> Some("generation failed")]
                     ELSE [id |-> m.id, chunk |-> chunk, error |-> None]
     IN  /\ chunkInbox' = [chunkInbox EXCEPT ![w] = Tail(@)]
         /\ generator' = [generator EXCEPT ![w] = Some(gen)]
         /\ chunkCache' = IF hit \/ throws THEN chunkCache
                          ELSE [chunkCache EXCEPT ![w] = @ @@ (cacheKey :> chunk)]
         /\ chunkOutbox' = [chunkOutbox EXCEPT ![w] = Append(@, response)]
  /\ UNCHANGED <<hardwareConcurrency, chunkWorkers, textureWorkers, chunkRequestId,
                 textureRequestId, pendingChunkRequests, pendingTextureRequests,
                 textureInbox, textureOutbox, timers, pregenerateHandlers,
                 requests, outcome>>
  /\ UNCHANGED <<noisePhase, genVars, rendVars, gsmVars>>

ChunkWorkerAnswers(w) == ChunkWorkerMessage(w, FALSE)

ChunkWorkerThrows(w) == ChunkWorkerMessage(w, TRUE)

\* a lookup that still finds the entry of a request that has timed out
lookupChunkRequestOfTimedOut(id) ==
  IF id \in pendingChunkRequests
       \/ (id \in DOMAIN outcome /\ outcome[id].by = "timeout")
  THEN Some(id)
  ELSE None

\* a lookup that returns whichever entry is pending, whatever the id
lookupChunkRequestAny(id) ==
  IF pendingChunkRequests # {}
  THEN Some(CHOOSE i \in pendingChunkRequests : TRUE)
  ELSE None

\* a lookup that still finds an entry after it was deleted
lookupChunkRequestStale(id) ==
  IF id \in DOMAIN requests /\ requests[id].posted THEN Some(id) ELSE None

\* this.pendingChunkRequests.get(id)
lookupChunkRequest(id) ==
  IF id \in pendingChunkRequests THEN Some(id) ELSE None

\* WorkerManager.handleChunkWorkerMessage, on the oldest message posted by worker w
HandleChunkWorkerMessage(w) ==
  /\ chunkOutbox[w] # <<>>
  /\ LET m == Head(chunkOutbox[w])
         request == lookupChunkRequest(m.id)
     IN  /\ chunkOutbox' = [chunkOutbox EXCEPT ![w] = Tail(@)]
         /\ IF ChunkWorkerResponseSchema(m) /\ request # None
            THEN /\ pendingChunkRequests' = pendingChunkRequests \ {m.id}
                 /\ outcome' = IF m.error # None
                               THEN settle(outcome, request[1], "rejected", None,
                                           m.error, m.id)
                               ELSE settle(outcome, request[1], "resolved",
                                           Some(m.chunk), None, m.id)
            ELSE UNCHANGED <<pendingChunkRequests, outcome>>
  /\ UNCHANGED <<hardwareConcurrency, chunkWorkers, textureWorkers, chunkRequestId,
                 textureRequestId, pendingTextureRequests, chunkInbox,
                 textureInbox, textureOutbox, timers, generator, chunkCache,
                 pregenerateHandlers, requests>>
  /\ UNCHANGED <<noisePhase, genVars, rendVars, gsmVars>>

\* the texture worker's two message listeners, on the oldest message posted to worker w
FallbackBitmap == [kind |-> "fallback", of |-> None]

TextureWorkerMessage(w, fallbackFirst) ==
  /\ textureInbox[w] # <<>>
  /\ LET m == Head(textureInbox[w])
         fallback == [type |-> "absent", id |-> m.id,
                      imageBitmap |-> Some(FallbackBitmap),
                      error |-> Some("Invalid texture request parameters")]
         complete == [type |-> "pregenerate-complete", id |-> "undefined",
                      imageBitmap |-> None, error |-> None]
         texture == [type |-> "absent", id |-> m.id,
                     imageBitmap |-> Some([kind |-> m.type, of |-> m.input]),
                     error |-> None]
         posts == IF m.type = "pregenerate"
                  THEN (IF fallbackFirst THEN <<fallback, complete>>
                        ELSE <<complete, fallback>>)
                  ELSE <<texture>>
     IN  /\ m.type # "pregenerate" => fallbackFirst
         /\ textureInbox' = [textureInbox EXCEPT ![w] = Tail(@)]
         /\ textureOutbox' = [textureOutbox EXCEPT ![w] = @ \o posts]
  /\ UNCHANGED <<hardwareConcurrency, chunkWorkers, textureWorkers, chunkRequestId,
                 textureRequestId, pendingChunkRequests, pendingTextureRequests,
                 chunkInbox, chunkOutbox, timers, generator, chunkCache,
                 pregenerateHandlers, requests, outcome>>
  /\ UNCHANGED <<noisePhase, genVars, rendVars, gsmVars>>

\* the texture worker fails while serving the oldest request posted to worker w: its
\* catch block posts the fallback bitmap with the error message
TextureWorkerThrows(w) ==
  /\ textureInbox[w] # <<>>
  /\ LET m == Head(textureInbox[w])
         response == [type |-> "absent", id |-> m.id,
                      imageBitmap |-> Some(FallbackBitmap),
                      error |-> Some("texture generation failed")]
     IN  /\ m.type # "pregenerate"
         /\ textureInbox' = [textureInbox EXCEPT ![w] = Tail(@)]
         /\ textureOutbox' = [textureOutbox EXCEPT ![w] = Append(@, response)]
  /\ UNCHANGED <<hardwareConcurrency, chunkWorkers, textureWorkers, chunkRequestId,
                 textureRequestId, pendingChunkRequests, pendingTextureRequests,
                 chunkInbox, chunkOutbox, timers, generator, chunkCache,
                 pregenerateHandlers, requests, outcome>>
  /\ UNCHANGED <<noisePhase, genVars, rendVars, gsmVars>>

\* this.pendingTextureRequests.get(id)
lookupTextureRequest(id) ==
  IF id \in pendingTextureRequests THEN Some(id) ELSE None

\* a handler that reads the message without validating it
acceptsTextureResponseUnvalidated(m) == m.id # "undefined"

\* the two invariants of handleTextureWorkerMessage let the message through
acceptsTextureResponse(m) == TextureWorkerResponseSchema(m) /\ m.type = "texture"

\* WorkerManager.handleTextureWorkerMessage and the pregenerate handler, on the oldest
\* message posted by texture worker w
HandleTextureWorkerMessage(w) ==
  /\ textureOutbox[w] # <<>>
  /\ LET m == Head(textureOutbox[w])
         accepted == acceptsTextureResponse(m)
         request == lookupTextureRequest(m.id)
     IN  /\ textureOutbox' = [textureOutbox EXCEPT ![w] = Tail(@)]
         /\ IF accepted /\ request # None
            THEN /\ pendingTextureRequests' = pendingTextureRequests \ {m.id}
                 /\ outcome' = IF m.error # None
                               THEN settle(outcome, request[1], "rejected", None,
                                           m.error, m.id)
                               ELSE IF m.imageBitmap = None
                               THEN outcome
                               ELSE settle(outcome, request[1], "resolved",
                                           m.imageBitmap, None, m.id)
            ELSE UNCHANGED <<pendingTextureRequests, outcome>>
         /\ pregenerateHandlers' =
              IF m.type \in {"pregenerate-complete", "pregenerate-error"}
              THEN pregenerateHandlers \ {w}
              ELSE pregenerateHandlers
  /\ UNCHANGED <<hardwareConcurrency, chunkWorkers, textureWorkers, chunkRequestId,
                 textureRequestId, pendingChunkRequests, chunkInbox, chunkOutbox,
                 textureInbox, timers, generator, chunkCache, requests>>
  /\ UNCHANGED <<noisePhase, genVars, rendVars, gsmVars>>

\* a timer callback that rejects without testing pendingChunkRequests.has(id)
TimerFiresUnguarded(t) ==
  /\ t \in timers
  /\ timers' = timers \ {t}
  /\ pendingChunkRequests' = pendingChunkRequests \ {t.id}
  /\ pendingTextureRequests' = pendingTextureRequests \ {t.id}
  /\ outcome' = settle(outcome, t.id, "rejected", None,
                       Some(IF t.pool = "chunk" THEN "Chunk generation timeout"
                            ELSE "Texture generation timeout"), "timeout")
  /\ UNCHANGED <<hardwareConcurrency, chunkWorkers, textureWorkers, chunkRequestId,
                 textureRequestId, chunkInbox, chunkOutbox, textureInbox,
                 textureOutbox, generator, chunkCache, pregenerateHandlers, requests>>
  /\ UNCHANGED <<noisePhase, genVars, rendVars, gsmVars>>

\* a setTimeout callback of generateChunk / generate*Texture runs
TimerFires(t) ==
  /\ t \in timers
  /\ timers' = timers \ {t}
  /\ IF t.pool = "chunk"
     THEN /\ pendingChunkRequests' = pendingChunkRequests \ {t.id}
          /\ outcome' = IF t.id \in pendingChunkRequests
                        THEN settle(outcome, t.id, "rejected", None,
                                    Some("Chunk generation timeout"), "timeout")
                        ELSE outcome
          /\ UNCHANGED pendingTextureRequests
     ELSE /\ pendingTextureRequests' = pendingTextureRequests \ {t.id}
          /\ outcome' = IF t.id \in pendingTextureRequests
                        THEN settle(outcome, t.id, "rejected", None,
                                    Some("Texture generation timeout"), "timeout")
                        ELSE outcome
          /\ UNCHANGED pendingChunkRequests
  /\ UNCHANGED <<hardwareConcurrency, chunkWorkers, textureWorkers, chunkRequestId,
                 textureRequestId, chunkInbox, chunkOutbox, textureInbox,
                 textureOutbox, generator, chunkCache, pregenerateHandlers, requests>>
  /\ UNCHANGED <<noisePhase, genVars, rendVars, gsmVars>>

\* a destroy() that terminates the workers and leaves the pending tables alone
DestroyKeepsTables ==
  /\ chunkWorkers # <<>>
  /\ chunkWorkers' = <<>>
  /\ textureWorkers' = <<>>
  /\ chunkInbox' = [w \in DOMAIN chunkInbox |-> <<>>]
  /\ chunkOutbox' = [w \in DOMAIN chunkOutbox |-> <<>>]
  /\ textureInbox' = [w \in DOMAIN textureInbox |-> <<>>]
  /\ textureOutbox' = [w \in DOMAIN textureOutbox |-> <<>>]
  /\ UNCHANGED <<hardwareConcurrency, chunkRequestId, textureRequestId, timers,
                 pendingChunkRequests, pendingTextureRequests,
                 generator, chunkCache, pregenerateHandlers, requests, outcome>>
  /\ UNCHANGED <<noisePhase, genVars, rendVars, gsmVars>>

\* WorkerManager.destroy()
Destroy ==
  /\ chunkWorkers # <<>>
  /\ chunkWorkers' = <<>>
  /\ textureWorkers' = <<>>
  /\ pendingChunkRequests' = {}
  /\ pendingTextureRequests' = {}
  /\ chunkInbox' = [w \in DOMAIN chunkInbox |-> <<>>]
  /\ chunkOutbox' = [w \in DOMAIN chunkOutbox |-> <<>>]
  /\ textureInbox' = [w \in DOMAIN textureInbox |-> <<>>]
  /\ textureOutbox' = [w \in DOMAIN textureOutbox |-> <<>>]
  /\ UNCHANGED <<hardwareConcurrency, chunkRequestId, textureRequestId, timers,
                 generator, chunkCache, pregenerateHandlers, requests, outcome>>
  /\ UNCHANGED <<noisePhase, genVars, rendVars, gsmVars>>

ChunkPoolSteps ==
  \/ \E r \in ChunkRequestInputs : GenerateChunk(r[1], r[2], r[3])
  \/ \E w \in DOMAIN chunkInbox : ChunkWorkerAnswers(w)
  \/ \E w \in DOMAIN chunkInbox : ChunkWorkerThrows(w)
  \/ \E w \in DOMAIN chunkOutbox : HandleChunkWorkerMessage(w)
  \/ \E t \in timers : TimerFires(t)

TexturePoolSteps ==
  \/ GenerateTileTexture
  \/ GenerateResourceTexture
  \/ GenerateChunkTexture
  \/ \E w \in DOMAIN textureInbox, first \in BOOLEAN : TextureWorkerMessage(w, first)
  \/ \E w \in DOMAIN textureInbox : TextureWorkerThrows(w)
  \/ \E w \in DOMAIN textureOutbox : HandleTextureWorkerMessage(w)
  \/ \E t \in timers : TimerFires(t)

NextChunkPool == ChunkPoolSteps \/ Destroy

NextTexturePool == TexturePoolSteps \/ Destroy

NextWM == ChunkPoolSteps \/ TexturePoolSteps \/ Destroy

NextDispatch ==
  \/ \E r \in ChunkRequestInputs : GenerateChunk(r[1], r[2], r[3])
  \/ GenerateTileTexture
  \/ GenerateResourceTexture
  \/ GenerateChunkTexture
  \/ \E t \in timers : TimerFires(t)
  \/ Destroy

(***************************************************************************)
(* GameRenderer: rendering of visible chunks                               *)
(***************************************************************************)
MaxRenderCalls == 4

\* renderChunkAsync's guards without the test of pendingChunks
renderStartsUnguarded(called) ==
  {k \in called : ~(chunkContainers[k] # "none" /\ k \in chunkTextures)}

\* the keys, of those renderChunkAsync is called for, that pass its two guards
renderStarts(called) ==
  {k \in called : /\ ~(chunkContainers[k] # "none" /\ k \in chunkTextures)
                  /\ k \notin pendingChunks}

\* renderChunkAsync for each key of `called`, up to its first await, followed by
\* the removal of the containers of the keys in `hidden`. A key whose texture is
\* cached runs to the end of the body at once; any other key shows the
\* placeholder, asks getOrGenerateChunkAsync for the chunk and awaits it
renderChunkAsync(called, hidden) ==
  LET begun == renderStarts(called)
      atOnce == begun \cap chunkTextures
      awaiting == begun \ atOnce
  IN  /\ renderLog.calls < MaxRenderCalls
      /\ pendingChunks' = (pendingChunks \cup begun) \ atOnce
      /\ chunkContainers' =
           [k \in KeySet |->
              LET shown == IF k \in atOnce THEN "chunk"
                           ELSE IF k \in awaiting /\ chunkContainers[k] = "none"
                                THEN "placeholder"
                           ELSE chunkContainers[k]
              IN  IF k \in hidden THEN "none" ELSE shown]
      /\ renderBodies' = [k \in KeySet |->
                            IF k \in awaiting THEN Append(renderBodies[k], "chunk")
                            ELSE renderBodies[k]]
      /\ renderLog' = [calls |-> renderLog.calls + 1,
                       requested |-> [k \in KeySet |->
                                        renderLog.requested[k]
                                          + (IF k \in awaiting THEN 1 ELSE 0)]]
      /\ UNCHANGED chunkTextures
      /\ UNCHANGED <<noisePhase, genVars, gsmVars, wmVars>>

\* GameRenderer.renderChunkAsync(chunkX, chunkY)
RenderChunkAsync(chunkX, chunkY) ==
  renderChunkAsync({getChunkKey(chunkX, chunkY)}, {})

\* GameRenderer.updateVisibleChunks() when the keys of `visible` are in view
UpdateVisibleChunks(visible) ==
  renderChunkAsync({k \in visible : chunkContainers[k] = "none" /\ k \notin pendingChunks},
                   KeySet \ visible)

\* the body's exit through finally: pendingChunks.delete(key)
renderBodyEnds(key, i) ==
  /\ pendingChunks' = pendingChunks \ {key}
  /\ renderBodies' = [renderBodies EXCEPT ![key] =
                        SubSeq(@, 1, i - 1) \o SubSeq(@, i + 1, Len(@))]

\* the future of getOrGenerateChunkAsync settles for the i-th body of key: on a
\* chunk the body asks generateChunkTexture and awaits it, on a rejection it
\* leaves through catch and finally
ChunkFutureSettles(key, i, fulfilled) ==
  /\ i \in DOMAIN renderBodies[key]
  /\ renderBodies[key][i] = "chunk"
  /\ IF fulfilled
     THEN /\ renderBodies' = [renderBodies EXCEPT ![key][i] = "texture"]
          /\ UNCHANGED pendingChunks
     ELSE renderBodyEnds(key, i)
  /\ UNCHANGED <<chunkContainers, chunkTextures, renderLog>>
  /\ UNCHANGED <<noisePhase, genVars, gsmVars, wmVars>>

\* the future of generateChunkTexture settles for the i-th body of key: on a
\* bitmap the texture is cached and the sprite replaces what was shown
TextureFutureSettles(key, i, fulfilled) ==
  /\ i \in DOMAIN renderBodies[key]
  /\ renderBodies[key][i] = "texture"
  /\ renderBodyEnds(key, i)
  /\ chunkTextures' = IF fulfilled THEN chunkTextures \cup {key} ELSE chunkTextures
  /\ chunkContainers' = IF fulfilled THEN [chunkContainers EXCEPT ![key] = "chunk"]
                        ELSE chunkContainers
  /\ UNCHANGED renderLog
  /\ UNCHANGED <<noisePhase, genVars, gsmVars, wmVars>>

NextRenderer ==
  \/ \E c \in CallCoords : RenderChunkAsync(c[1], c[2])
  \/ \E visible \in SUBSET KeySet : UpdateVisibleChunks(visible)
  \/ \E key \in KeySet, i \in 1..MaxRenderCalls, fulfilled \in BOOLEAN :
       ChunkFutureSettles(key, i, fulfilled)
  \/ \E key \in KeySet, i \in 1..MaxRenderCalls, fulfilled \in BOOLEAN :
       TextureFutureSettles(key, i, fulfilled)

(***************************************************************************)
(* Specifications                                                          *)
(***************************************************************************)
GenIdle ==
  /\ gSeed = Seeds[1] /\ gX = 0 /\ gY = 0 /\ gMain = None /\ gWorker = None
  /\ aTile = <<0, 0>> /\ addressed = None

GsmIdle == InitGSM /\ worldSeed = Seeds[1]

WmIdle == InitWM /\ hardwareConcurrency = HardwareConcurrency

Init == noisePhase = PhaseOfWorld /\ GenIdle /\ InitGSM /\ WmIdle

InitOfGen == InitGen /\ GsmIdle /\ WmIdle

InitOfPool == noisePhase = PhaseOfWorld /\ GenIdle /\ GsmIdle /\ InitWM

InitOfWM == InitOfPool /\ hardwareConcurrency = HardwareConcurrency

\* machines on which the chunk pool, or both pools, have more than one worker
InitOfDispatch ==
  /\ noisePhase = PhaseOfWorld /\ GenIdle /\ GsmIdle
  /\ hardwareConcurrency \in {HardwareConcurrency, 2 * HardwareConcurrency}
  /\ initializeWorkers

vars == <<noisePhase, genVars, rendVars, gsmVars, wmVars>>

Spec == Init /\ [][NextGSM]_vars

SpecFail == Init /\ [][NextGSM \/ CompleteAsyncThrows]_vars

SpecGen == InitOfGen /\ [][NextGen]_vars

\* SpecAddress: the tile addressing applied to every tile of a range around
\* the origin
InitOfAddress ==
  /\ noisePhase = PhaseOfWorld
  /\ gSeed = Seeds[1] /\ gX = 0 /\ gY = 0 /\ gMain = None /\ gWorker = None
  /\ aTile \in TileRange \X TileRange
  /\ addressed = None
  /\ GsmIdle
  /\ WmIdle

SpecAddress == InitOfAddress /\ [][AddressTile]_vars

SpecChunkPool == InitOfPool /\ [][NextChunkPool]_vars

SpecTexturePool == InitOfPool /\ [][NextTexturePool]_vars

SpecWM == InitOfWM /\ [][NextWM]_vars

\* the dispatching side alone: requests, their timers and destroy(), with the
\* workers not scheduled, so the queues show which worker each request went to
SpecDispatch == InitOfDispatch /\ [][NextDispatch]_vars

\* the GameStateManager with every operation of the player, from a fresh or a loaded
\* state
InitOfPlayer == noisePhase = PhaseOfWorld /\ GenIdle /\ InitLoaded /\ WmIdle

SpecPlayer == InitOfPlayer /\ [][NextPlayer]_vars

\* the chunk pool while destroy() is not called; the event loop runs every
\* armed setTimeout callback and delivers every posted message, while a worker
\* may stay silent for ever
SpecChunkPoolFair ==
  /\ InitOfPool
  /\ [][ChunkPoolSteps]_vars
  /\ WF_vars(\E t \in timers : TimerFires(t))
  /\ WF_vars(\E w \in DOMAIN chunkOutbox : HandleChunkWorkerMessage(w))

\* the chunk cache of the GameStateManager with subscribers coming and going
SpecListeners == Init /\ [][NextListeners]_vars

SpecRenderer == Init /\ [][NextRenderer]_vars
(***************************************************************************)
(* Claims                                                                  *)
(***************************************************************************)

\* C1: of the calls to getOrGenerateChunkAsync(K) that miss the cache, any two
\* issued with no async generation for K completing in between hold the same
\* promise; when it is fulfilled, generateChunk has been invoked for K exactly
\* once since the call was issued, and both callers are resolved with the same
\* chunk.
C1_Dedup ==
  \A i \in 1..Len(callers), j \in 1..Len(callers) :
    ( /\ callers[i].key = callers[j].key
      /\ callers[i].epoch = callers[j].epoch
      /\ ~callers[i].cached
      /\ ~callers[j].cached )
    => /\ callers[i].promise = callers[j].promise
       /\ callers[i].outcome = "fulfilled"
            => /\ promises[callers[i].promise].gensAtDone - callers[i].gensAtCall = 1
               /\ callers[j].outcome = "fulfilled"
               /\ callers[j].value = callers[i].value

\* C2: in every step other than resetState, a key that is in state.chunks
\* before the step has no further generateChunk invocation in the step.
C2_CacheStability ==
  [][\A k \in KeySet :
       (isCached(k) /\ lastOp' # "resetState") => genCalls'[k] = genCalls[k]]_vars

\* C3: when an async generation has failed, the in-flight marker of its key is
\* gone and no later caller is handed the failed promise: every marker points
\* to a promise that is still pending, and no call received a promise that was
\* already rejected.
C3_FailureClearsMarker ==
  /\ \A k \in DOMAIN chunkGenerationPromises :
       promises[chunkGenerationPromises[k]].state = "pending"
  /\ \A i \in 1..Len(callers) :
       (lastOp = "getOrGenerateChunkAsync" /\ i = Len(callers))
         => ~(callers[i].outcome = "rejected")

\* C4: in every step other than resetState, an entry present in state.chunks
\* stays present, keeps its value and is not written again.
C4_StoredChunkImmutable ==
  [][\A k \in KeySet :
       (isCached(k) /\ lastOp' # "resetState")
         => /\ k \in DOMAIN chunks'
            /\ chunks'[k] = chunks[k]
            /\ chunkWrites'[k] = chunkWrites[k]]_vars

\* C5: every key with an in-flight async generation has a chunk request for its
\* coordinates dispatched through WorkerManager.generateChunk, and no promise
\* of getOrGenerateChunkAsync had the generator run on the control thread.
C5_Delegation ==
  /\ \A k \in DOMAIN chunkGenerationPromises :
       \E id \in DOMAIN requests :
         /\ requests[id].pool = "chunk"
         /\ getChunkKey(requests[id].input.chunkX, requests[id].input.chunkY) = k
  /\ \A p \in 1..Len(promises) : promises[p].gens = 0

\* the ids in either pending table, and the queue of responses of a request's worker
Pending == pendingChunkRequests \cup pendingTextureRequests

Outbox(pool) == IF pool = "chunk" THEN chunkOutbox ELSE textureOutbox

TimeoutError(pool) ==
  IF pool = "chunk" THEN "Chunk generation timeout" ELSE "Texture generation timeout"

\* request id is settled in this step by the response at the head of a worker's
\* queue: the response carries id, the entry of id is removed, and the promise
\* gets the response's payload or the response's error
SettledByOwnResponse(id) ==
  \E w \in DOMAIN Outbox(requests[id].pool) :
    LET box == Outbox(requests[id].pool)[w]
    IN  /\ box # <<>>
        /\ Head(box).id = id
        /\ id \in Pending
        /\ id \notin Pending'
        /\ outcome'[id].by = id
        /\ IF Head(box).error # None
           THEN /\ outcome'[id].state = "rejected"
                /\ outcome'[id].error = Head(box).error
           ELSE /\ outcome'[id].state = "resolved"
                /\ outcome'[id].value =
                     (IF requests[id].pool = "chunk" THEN Some(Head(box).chunk)
                      ELSE Head(box).imageBitmap)

SettledByOwnTimer(id) ==
  /\ [pool |-> requests[id].pool, id |-> id] \in timers
  /\ [pool |-> requests[id].pool, id |-> id] \notin timers'
  /\ outcome'[id].by = "timeout"

\* C6: whenever the promise of a dispatched request with id i is settled, it is
\* settled by its own timer or by a worker response that carries id i, which
\* removes the entry of i and resolves with that response's payload or rejects
\* with that response's error; a response never settles a request with another
\* id, in any order of arrival.
C6_CorrelationSafety ==
  [][\A id \in DOMAIN outcome :
       (outcome[id].state = "pending" /\ outcome'[id].state # "pending")
         => (SettledByOwnResponse(id) \/ SettledByOwnTimer(id))]_vars

\* C6 witness: the second chunk request was resolved by the response carrying
\* its id while the first request is still pending with its response queued.
C6_Witness ==
  /\ ChunkId(1) \in pendingChunkRequests
  /\ ChunkId(2) \in DOMAIN outcome
  /\ outcome[ChunkId(2)].state = "resolved"
  /\ outcome[ChunkId(2)].by = ChunkId(2)
  /\ \E w \in DOMAIN chunkOutbox :
       chunkOutbox[w] # <<>> /\ Head(chunkOutbox[w]).id = ChunkId(1)

RejectedByTimeout(pool) ==
  [state |-> "rejected", value |-> None, error |-> Some(TimeoutError(pool)),
   by |-> "timeout", calls |-> 1]

\* C7 (as stated): when the timer of a dispatched request fires and no response
\* has settled the request, the request is rejected with the timeout error and
\* its entry is no longer in the pending table; afterwards nothing changes its
\* outcome.
C7_Timeout ==
  [][/\ \A t \in timers :
          (t \notin timers' /\ outcome[t.id].state = "pending")
            => /\ outcome'[t.id] = RejectedByTimeout(t.pool)
               /\ t.id \notin Pending'
     /\ \A id \in DOMAIN outcome :
          outcome[id].by = "timeout"
            => (outcome'[id] = outcome[id] /\ id \notin Pending')]_vars

\* C7 (amended): when the timer of a dispatched request fires while its entry is
\* still in the pending table (no response was handled for it and destroy() has
\* not cleared the table), the request is rejected with the timeout error and
\* its entry is removed in that step; afterwards a message carrying the same id
\* changes neither the outcome nor the pending table.  A timer that finds no
\* entry (a response settled the request, or destroy() dropped the entry)
\* changes no outcome.
C7_TimeoutWhilePending ==
  [][/\ \A t \in timers :
          (t \notin timers' /\ t.id \in Pending)
            => /\ outcome'[t.id] = RejectedByTimeout(t.pool)
               /\ t.id \notin Pending'
     /\ \A t \in timers :
          (t \notin timers' /\ t.id \notin Pending) => outcome' = outcome
     /\ \A id \in DOMAIN outcome :
          outcome[id].by = "timeout"
            => (outcome'[id] = outcome[id] /\ id \notin Pending')]_vars

\* C7 witness: a chunk request was rejected by its timer, and the response its
\* live worker produced afterwards has been delivered and dropped.
C7_Witness ==
  \E id \in DOMAIN outcome :
    /\ requests[id].pool = "chunk"
    /\ outcome[id].by = "timeout"
    /\ chunkWorkers # <<>>
    /\ \A i \in 1..Len(chunkInbox[requests[id].worker]) :
         chunkInbox[requests[id].worker][i].id # id
    /\ \A i \in 1..Len(chunkOutbox[requests[id].worker]) :
         chunkOutbox[requests[id].worker][i].id # id

\* C8 (as stated): every dispatched request has at most one settling call, and
\* its entry is in the pending table exactly while its promise is unsettled.
C8_PendingLifetime ==
  \A id \in DOMAIN requests :
    requests[id].posted
      => /\ outcome[id].calls <= 1
         /\ id \in Pending <=> outcome[id].state = "pending"

\* C8 (amended): every dispatched request has at most one settling call, by its
\* own response or its own timer; its entry is in the pending table only while
\* its promise is unsettled, and an unsettled request has lost its entry only
\* if destroy() cleared the pending tables.
C8_SettleOnce ==
  \A id \in DOMAIN requests :
    requests[id].posted
      => /\ outcome[id].calls <= 1
         /\ outcome[id].by \in {"", id, "timeout"}
         /\ id \in Pending => outcome[id].state = "pending"
         /\ (outcome[id].state = "pending" /\ id \notin Pending)
              => chunkWorkers = <<>>

\* C8 witness: a request was resolved by its response and its timer fired
\* afterwards; the promise saw one settling call.
C8_Witness ==
  \E id \in DOMAIN requests :
    /\ requests[id].posted
    /\ outcome[id].state = "resolved"
    /\ outcome[id].calls = 1
    /\ [pool |-> requests[id].pool, id |-> id] \notin timers

\* C9: for every seed, chunk coordinates and noise fields, the chunk returned by
\* WorldGenerator.generateChunk equals the chunk returned on a second call, and
\* equals the chunk WorkerWorldGenerator.generateChunk returns in a worker built
\* from the same seed (same type, elevation, resource, resourceAmount per tile).
C9_ReplicaEquivalence ==
  /\ gMain # None => gMain[1] = generateChunk(WorldGenerator(gSeed), gX, gY)
  /\ (gMain # None /\ gWorker # None) => gMain[1] = gWorker[1]

\* C9 witness: both generators have returned a chunk that has a water tile and a
\* tile carrying a resource.
C9_Witness ==
  /\ gMain # None
  /\ gWorker # None
  /\ \E y \in SampleOffsets, x \in SampleOffsets : gWorker[1].tiles[y][x].type = "water"
  /\ \E y \in SampleOffsets, x \in SampleOffsets : gWorker[1].tiles[y][x].resource # None

\* C10: every response a chunk worker posts carries the id of a request it
\* received and either an error or the chunk generate(seed, chunkX, chunkY) of
\* that request.
C10_WorkerContract ==
  \A w \in DOMAIN chunkOutbox :
    \A i \in 1..Len(chunkOutbox[w]) :
      LET m == chunkOutbox[w][i]
      IN  /\ m.id \in DOMAIN requests
          /\ \/ m.error # None
             \/ m.chunk = generateChunk(WorldGenerator(requests[m.id].input.seed),
                                        requests[m.id].input.chunkX,
                                        requests[m.id].input.chunkY)

\* the resource invariant of one tile
ResourceInvariant(tile) ==
  /\ (tile.resource # None) <=> (tile.resourceAmount # None)
  /\ tile.resource # None => tile.type = "land"

\* C11: in every chunk returned by WorldGenerator.generateChunk or by
\* WorkerWorldGenerator.generateChunk, every tile has a resource exactly when it
\* has a resourceAmount, and a tile with a resource is a land tile.
C11_ResourceInvariant ==
  \A g \in {gMain, gWorker} :
    g # None =>
      \A y \in SampleOffsets, x \in SampleOffsets : ResourceInvariant(g[1].tiles[y][x])

\* C11 witness: both generators returned a chunk with a land tile that carries
\* a resource and an amount, and a water tile that carries neither.
C11_Witness ==
  \A g \in {gMain, gWorker} :
    /\ g # None
    /\ \E y \in SampleOffsets, x \in SampleOffsets :
         /\ g[1].tiles[y][x].type = "land"
         /\ g[1].tiles[y][x].resource # None
         /\ g[1].tiles[y][x].resourceAmount # None
    /\ \E y \in SampleOffsets, x \in SampleOffsets :
         /\ g[1].tiles[y][x].type = "water"
         /\ g[1].tiles[y][x].resource = None

\* per pool: the request counter, the id of the n-th request, the pool size
Counter(pool) == IF pool = "chunk" THEN chunkRequestId ELSE textureRequestId

IdOf(pool, n) == IF pool = "chunk" THEN ChunkId(n) ELSE TextureId(n)

PoolSize(pool) == IF pool = "chunk" THEN numChunkWorkers ELSE numTextureWorkers

Inbox(pool) == IF pool = "chunk" THEN chunkInbox ELSE textureInbox

Queued(box, id) == \E i \in 1..Len(box) : box[i].id = id

\* the n-th request of the pool went to the worker at index n modulo the pool size
AtCounterModSize(pool, n) ==
  LET r == requests[IdOf(pool, n)]
  IN  /\ r.posted
      /\ r.worker = (n % PoolSize(pool)) + 1
      /\ chunkWorkers # <<>> => Queued(Inbox(pool)[r.worker], IdOf(pool, n))

\* the windows of poolSize consecutive requests of a pool
Windows(pool) ==
  {n \in 1..Counter(pool) : n + PoolSize(pool) - 1 <= Counter(pool)}

Window(pool, n) == n..(n + PoolSize(pool) - 1)

\* C12 (as stated): in each pool every request is posted to the worker at index
\* counter modulo pool size, so the requests of any window of poolSize
\* consecutive requests are spread over all workers of the pool, one each.
C12_RoundRobinAnyRequests ==
  \A pool \in {"chunk", "texture"} :
    chunkWorkers # <<>> =>
      \A n \in Windows(pool) :
        /\ \A k \in Window(pool, n) : AtCounterModSize(pool, k)
        /\ {requests[IdOf(pool, k)].worker : k \in Window(pool, n)}
             = 1..PoolSize(pool)

\* C12 (amended): in each pool every request that passes validation before
\* destroy() is posted to the worker at index counter modulo pool size,
\* whatever is pending; the requests of a window of poolSize consecutive
\* requests are spread over all workers of the pool, one each, when none of
\* them was refused by validation or issued after destroy().
C12_RoundRobin ==
  \A pool \in {"chunk", "texture"} :
    /\ \A n \in 1..Counter(pool) :
         requests[IdOf(pool, n)].posted => AtCounterModSize(pool, n)
    /\ \A n \in Windows(pool) :
         (\A k \in Window(pool, n) : requests[IdOf(pool, k)].posted)
           => {requests[IdOf(pool, k)].worker : k \in Window(pool, n)}
                = 1..PoolSize(pool)

\* C12 witness: on a machine with two texture workers a tile texture request
\* and a chunk texture request went to different workers, the first of them no
\* longer pending when the second was queued, next to a posted chunk request.
C12_Witness ==
  /\ numTextureWorkers = 2
  /\ textureRequestId = 2
  /\ requests[TextureId(1)].kind = "tile"
  /\ requests[TextureId(2)].kind = "chunk"
  /\ requests[TextureId(1)].worker # requests[TextureId(2)].worker
  /\ TextureId(1) \notin pendingTextureRequests
  /\ TextureId(2) \in pendingTextureRequests
  /\ chunkRequestId = 1
  /\ requests[ChunkId(1)].posted

\* the ids issued so far by the pool
Issued(pool) == {IdOf(pool, n) : n \in 1..Counter(pool)}

PendingOf(pool) ==
  IF pool = "chunk" THEN pendingChunkRequests ELSE pendingTextureRequests

\* a dispatch of the pool: the step in which its counter changes
FreshDispatch(pool) ==
  LET n  == Counter(pool)
      id == IdOf(pool, n + 1)
  IN  Counter(pool)' # n =>
        /\ Counter(pool)' = n + 1
        /\ id \notin Issued(pool)
        /\ id \notin DOMAIN requests
        /\ id \notin PendingOf(pool)
        /\ PendingOf(pool)' = PendingOf(pool) \cup {id}

\* C13: within one WorkerManager the per-pool counters only increase and no two
\* requests are issued the same id: the ids issued so far are as many as the
\* calls, the pending ids are among them, and a dispatch adds an id that was
\* never issued and is not pending, leaving every live entry in place.
C13_UniqueIds ==
  /\ [](\A pool \in {"chunk", "texture"} :
          /\ Cardinality(Issued(pool)) = Counter(pool)
          /\ PendingOf(pool) \subseteq Issued(pool)
          /\ Issued(pool) \subseteq DOMAIN requests)
  /\ [](Cardinality(DOMAIN requests) = chunkRequestId + textureRequestId)
  /\ [][FreshDispatch("chunk") /\ FreshDispatch("texture")]_vars

\* C13 witness: a second chunk request was dispatched while the first was still
\* pending, after a texture request had already left its table.
C13_Witness ==
  /\ pendingChunkRequests = {ChunkId(1), ChunkId(2)}
  /\ textureRequestId = 1
  /\ pendingTextureRequests = {}
  /\ chunkWorkers # <<>>

\* the chunk requests issued so far ask for pairwise distinct chunk keys
DistinctKeys ==
  \A a, b \in 1..chunkRequestId :
    a # b => getChunkKey(requests[ChunkId(a)].input.chunkX, requests[ChunkId(a)].input.chunkY)
               # getChunkKey(requests[ChunkId(b)].input.chunkX, requests[ChunkId(b)].input.chunkY)

\* the worker generated the chunk of request id, and the dispatcher has handled
\* its response, all before the request's timeout
AnsweredInTime(id) ==
  LET r == requests[id]
  IN  /\ r.posted
      /\ cacheKeyOf(r.input.chunkX, r.input.chunkY) \in DOMAIN chunkCache[r.worker]
      /\ ~Queued(chunkOutbox[r.worker], id)
      /\ outcome[id].by # "timeout"

\* C14: on a chunk pool of one worker, or more, back-to-back chunk requests for
\* pairwise distinct keys that the worker answers before their timeouts all
\* resolve, each with the chunk of the coordinates and seed it asked for, and
\* until then each stays pending with its message queued for the worker or its
\* response queued for the dispatcher.
C14_SharedWorker ==
  (chunkWorkers # <<>> /\ DistinctKeys) =>
    \A n \in 1..chunkRequestId :
      LET id == ChunkId(n)
          r  == requests[id]
      IN  r.posted =>
            /\ AnsweredInTime(id) =>
                 /\ outcome[id].state = "resolved"
                 /\ outcome[id].value[1].x = r.input.chunkX
                 /\ outcome[id].value[1].y = r.input.chunkY
                 /\ outcome[id].value[1] =
                      workerGenerateChunk(WorkerWorldGenerator(r.input.seed),
                                          r.input.chunkX, r.input.chunkY)
                 /\ id \notin pendingChunkRequests
            /\ outcome[id].state = "pending" =>
                 /\ id \in pendingChunkRequests
                 /\ \/ Queued(chunkInbox[r.worker], id)
                    \/ Queued(chunkOutbox[r.worker], id)

\* C14 witness: two requests for different keys were dispatched to the only
\* chunk worker before it served either of them, and both have resolved.
C14_Witness ==
  /\ numChunkWorkers = 1
  /\ chunkRequestId = 2
  /\ DistinctKeys
  /\ \A n \in 1..2 :
       /\ outcome[ChunkId(n)].state = "resolved"
       /\ outcome[ChunkId(n)].value[1].x = requests[ChunkId(n)].input.chunkX
       /\ outcome[ChunkId(n)].value[1].y = requests[ChunkId(n)].input.chunkY
  /\ outcome[ChunkId(1)].value # outcome[ChunkId(2)].value
  /\ \E k \in DOMAIN chunkCache[1] : chunkCache[1][k].y = -1

\* destroy() has run
Destroyed == chunkWorkers = <<>>

\* no message is under way to or from a worker
Terminated ==
  /\ \A w \in DOMAIN chunkInbox : chunkInbox[w] = <<>> /\ chunkOutbox[w] = <<>>
  /\ \A w \in DOMAIN textureInbox : textureInbox[w] = <<>> /\ textureOutbox[w] = <<>>

\* C15: destroy() leaves both pools without a worker, no message under way and
\* both pending tables empty, and from then on no request that was issued
\* before is resolved or rejected: the promises still unsettled at destroy()
\* stay unsettled, also in the steps in which their timers fire.
C15_Teardown ==
  [][/\ (~Destroyed /\ Destroyed') =>
          /\ chunkWorkers' = <<>> /\ textureWorkers' = <<>>
          /\ Terminated'
          /\ pendingChunkRequests' = {} /\ pendingTextureRequests' = {}
     /\ Destroyed =>
          /\ Destroyed' /\ Terminated'
          /\ \A id \in DOMAIN outcome : outcome'[id] = outcome[id]]_vars

\* C15 witness: after destroy() the timers of a chunk request and of a texture
\* request that were pending at destroy() have fired, and both promises are
\* still unsettled.
C15_Witness ==
  /\ Destroyed
  /\ timers = {}
  /\ \E c \in Issued("chunk"), t \in Issued("texture") :
       /\ requests[c].posted /\ outcome[c].state = "pending"
       /\ requests[t].posted /\ outcome[t].state = "pending"

\* the pregenerate messages queued for texture worker w
PregenerateQueued(w) ==
  {i \in 1..Len(textureInbox[w]) : textureInbox[w][i].type = "pregenerate"}

\* every texture worker has answered pregenerate-complete or pregenerate-error
PregenerationAcknowledged == pregenerateHandlers = {}

\* C16: at startup each texture worker is sent one pregenerate message and no
\* chunk worker is sent any, and a texture request is dispatched only after
\* every texture worker has answered pregenerate-complete or pregenerate-error.
C16_PregenerationHandshake ==
  /\ \A w \in DOMAIN textureInbox :
       /\ Cardinality(PregenerateQueued(w)) <= 1
       /\ PregenerateQueued(w) # {} => w \in pregenerateHandlers
  /\ \A w \in DOMAIN chunkInbox :
       \A i \in 1..Len(chunkInbox[w]) : "type" \notin DOMAIN chunkInbox[w][i]
  /\ textureRequestId > 0 => PregenerationAcknowledged

\* the texture worker has posted its response to request id and the dispatcher
\* has received it, while the timer of the request is still armed
TextureAnsweredInTime(id) ==
  LET r == requests[id]
  IN  /\ r.posted
      /\ ~Queued(textureInbox[r.worker], id)
      /\ ~Queued(textureOutbox[r.worker], id)
      /\ [pool |-> "texture", id |-> id] \in timers

\* C17: a tile, resource or chunk texture request whose worker synthesized the
\* bitmap and whose response reached the dispatcher before the timeout is
\* resolved with that bitmap.
C17_TextureSuccess ==
  ~Destroyed =>
    \A id \in Issued("texture") :
      TextureAnsweredInTime(id) =>
        /\ outcome[id].state = "resolved"
        /\ outcome[id].value =
             Some([kind |-> requests[id].kind, of |-> requests[id].input.input])

\* the dispatcher receives, in this step, the oldest message posted by worker w
\* of the pool
Receives(pool, w) ==
  /\ Outbox(pool)[w] # <<>>
  /\ Outbox(pool)'[w] = Tail(Outbox(pool)[w])
  /\ ~Destroyed'

\* C18: when the dispatcher receives a response whose error field is set and
\* whose id is in the pending table of its pool, the promise of that request is
\* rejected with that error message and no chunk or bitmap, and the id leaves
\* the table; for chunk requests and for texture requests.
C18_ErrorPropagation ==
  [][\A pool \in {"chunk", "texture"} :
       \A w \in DOMAIN Outbox(pool) :
         Receives(pool, w) =>
           LET m == Head(Outbox(pool)[w])
           IN  (m.error # None /\ m.id \in PendingOf(pool)) =>
                 /\ outcome'[m.id].state = "rejected"
                 /\ outcome'[m.id].error = m.error
                 /\ outcome'[m.id].value = None
                 /\ m.id \notin PendingOf(pool)']_vars

\* message m of the pool fails the response schema of the pool
Malformed(pool, m) ==
  IF pool = "chunk" THEN ~ChunkWorkerResponseSchema(m)
  ELSE ~TextureWorkerResponseSchema(m)

\* the dispatcher has received a malformed response to a request it still
\* holds a promise for
MalformedReceived ==
  \E id \in Issued("texture") :
    /\ requests[id].posted
    /\ ~Queued(textureInbox[requests[id].worker], id)
    /\ ~Queued(textureOutbox[requests[id].worker], id)
    /\ outcome[id].by # id
    /\ ~Destroyed

\* C19: the step in which the dispatcher receives a message that fails its
\* response schema settles no promise and changes neither pending table,
\* neither worker pool and neither counter; and once such a message has been
\* received, a well-formed response to a pending request still settles that
\* request and removes its entry, and a new request still gets a fresh id, a
\* pending entry and, when valid, a place in a worker's queue.
C19_ValidationBoundary ==
  [][/\ \A pool \in {"chunk", "texture"} :
          \A w \in DOMAIN Outbox(pool) :
            (Receives(pool, w) /\ Malformed(pool, Head(Outbox(pool)[w]))) =>
              UNCHANGED <<outcome, pendingChunkRequests, pendingTextureRequests,
                          chunkWorkers, textureWorkers, chunkRequestId,
                          textureRequestId, timers, requests>>
     /\ MalformedReceived =>
          /\ \A w \in DOMAIN chunkOutbox :
               LET m == Head(chunkOutbox[w])
               IN  (Receives("chunk", w) /\ ~Malformed("chunk", m)
                      /\ m.id \in pendingChunkRequests) =>
                     /\ outcome'[m.id].state \in {"resolved", "rejected"}
                     /\ outcome'[m.id].by = m.id
                     /\ pendingChunkRequests' = pendingChunkRequests \ {m.id}
          /\ FreshDispatch("chunk") /\ FreshDispatch("texture")
          /\ \A pool \in {"chunk", "texture"} :
               LET n  == Counter(pool) + 1
                   id == IdOf(pool, n)
               IN  (Counter(pool)' # Counter(pool) /\ requests'[id].posted) =>
                     /\ requests'[id].worker = (n % PoolSize(pool)) + 1
                     /\ Queued(Inbox(pool)'[requests'[id].worker], id)
                     /\ outcome'[id].state = "pending"]_vars

\* C19 witness: the malformed response to a texture request was received and
\* left the request pending, a chunk request is resolved, and a further chunk
\* request is pending with its message queued for a worker.
C19_Witness ==
  /\ MalformedReceived
  /\ ~Destroyed
  /\ chunkRequestId = 2
  /\ outcome[ChunkId(1)].state = "resolved"
  /\ ChunkId(2) \in pendingChunkRequests
  /\ requests[ChunkId(2)].posted
  /\ Queued(chunkInbox[requests[ChunkId(2)].worker], ChunkId(2))
  /\ TextureId(1) \in pendingTextureRequests

\* C20: state.worldSeed is given its value when the state is created or loaded;
\* afterwards only resetState changes it: chunk generation, synchronous or
\* asynchronous, mineResource, craftItem, placeEntity, updateCamera,
\* setSelectedCraftingItem and saveState leave it as it was, and with it the
\* seed of the world generator.
C20_WorldSeedStability ==
  [][/\ worldSeed' # worldSeed => lastOp' = "resetState"
     /\ lastOp' # "resetState" =>
          /\ worldSeed' = worldSeed
          /\ worldGenerator' = worldGenerator]_vars

\* C20 witness: in a game loaded from a save, without any reset, a furnace was
\* crafted and placed, a chunk was generated asynchronously, and the state was
\* saved again under the seed of the loaded save.
C20_Witness ==
  /\ resets = 0
  /\ "furnace" \in DOMAIN craftedItems
  /\ entities # <<>>
  /\ \E i \in DOMAIN callers : callers[i].outcome = "fulfilled"
  /\ localStorage # None
  /\ localStorage[1].entities # <<>>
  /\ localStorage[1].worldSeed = Seeds[2]
  /\ worldSeed = Seeds[2]

Crafted(items, kind) == IF kind \in DOMAIN items THEN items[kind] ELSE 0

\* C22: craftItem("furnace") succeeds exactly when inventory.stone >= 5, and
\* then takes 5 stone, adds 1 furnace and notifies; a craftItem that fails
\* (unknown recipe, too little stone) changes neither inventory nor
\* craftedItems and notifies nobody; no inventory count is ever negative.
C22_Crafting ==
  /\ [](\A r \in ResourceTypes : inventory[r] >= 0)
  /\ [][/\ CraftItem("furnace") =>
             IF inventory["stone"] >= 5
             THEN /\ inventory' = [inventory EXCEPT !["stone"] = @ - 5]
                  /\ Crafted(craftedItems', "furnace") = Crafted(craftedItems, "furnace") + 1
                  /\ notifyCount' = notifyCount + 1
             ELSE UNCHANGED <<inventory, craftedItems, notifyCount>>
        /\ lastOp' = "craftItem" =>
             \/ UNCHANGED <<inventory, craftedItems, notifyCount>>
             \/ /\ inventory["stone"] >= 5
                /\ inventory'["stone"] = inventory["stone"] - 5
                /\ craftedItems' # craftedItems]_vars

\* C22 witness: a furnace was crafted from the 5 stone of the save and one stone
\* was mined, leaving one stone.
C22_Witness ==
  /\ Crafted(craftedItems, "furnace") = 1
  /\ inventory = [DEFAULT_INVENTORY EXCEPT !["stone"] = 1]
  /\ syncOps = 2

(***************************************************************************)
(* C23: terrain classification                                             *)
(***************************************************************************)
\* C23: for every tile either generator produced, with terrain and
\* elevationRaw the values of the terrain and elevation noise fields at the
\* tile, the type is land exactly when terrain > -0.1 and water otherwise; a
\* land tile has elevation 1 if elevationRaw > 0 and 0 otherwise; a water tile
\* has elevation 0 if elevationRaw > 0.2 and 1 otherwise; the elevation is
\* always 0 or 1.
C23_TerrainClassification ==
  \A side \in {"main", "worker"} :
    LET made == IF side = "main" THEN gMain ELSE gWorker
        gen == IF side = "main" THEN WorldGenerator(gSeed)
               ELSE WorkerWorldGenerator(gSeed)
    IN  made # None =>
          \A y \in SampleOffsets : \A x \in SampleOffsets :
            LET tile == made[1].tiles[y][x]
                tileX == gX * CHUNK_SIZE + x
                tileY == gY * CHUNK_SIZE + y
                terrain == Noise(gSeed, gen.terrainNoise,
                                 tileX * TerrainScale, tileY * TerrainScale)
                elevationRaw == Noise(gSeed, gen.elevationNoise,
                                      tileX * ElevationScale,
                                      tileY * ElevationScale)
            IN  /\ tile.type \in {"land", "water"}
                /\ (tile.type = "land") <=> (terrain > -100)
                /\ tile.elevation \in {0, 1}
                /\ tile.type = "land" =>
                     ((tile.elevation = 1) <=> (elevationRaw > 0))
                /\ tile.type = "water" =>
                     ((tile.elevation = 0) <=> (elevationRaw > 200))

\* both generators ran and the worker's chunk holds a water tile whose
\* elevation noise sits exactly on the 0.2 threshold (elevation 1) next to a
\* land tile of the main generator
C23_Witness ==
  /\ gMain # None
  /\ gWorker # None
  /\ \E y \in SampleOffsets : \E x \in SampleOffsets :
       /\ gWorker[1].tiles[y][x].type = "water"
       /\ gWorker[1].tiles[y][x].elevation = 1
       /\ Noise(gSeed, 3, (gX * CHUNK_SIZE + x) * ElevationScale,
                (gY * CHUNK_SIZE + y) * ElevationScale) = 200
  /\ \E y \in SampleOffsets : \E x \in SampleOffsets :
       gMain[1].tiles[y][x].type = "land"

(***************************************************************************)
(* C24: resource bands                                                     *)
(***************************************************************************)
\* C24: a generated tile carries a resource exactly when it is land and the
\* spawn noise at the tile is above 0.7; the kind is then the first band the
\* resource noise falls in, in the order > 0.6 iron, > 0.3 copper, > 0 coal,
\* > -0.3 stone, otherwise wood; exactly one band holds every resource noise
\* value.
C24_ResourceBands ==
  LET InBand(kind, v) ==
        CASE kind = "iron" -> v > 600
          [] kind = "copper" -> v > 300 /\ v <= 600
          [] kind = "coal" -> v > 0 /\ v <= 300
          [] kind = "stone" -> v > -300 /\ v <= 0
          [] kind = "wood" -> v <= -300
  IN  \A side \in {"main", "worker"} :
        LET made == IF side = "main" THEN gMain ELSE gWorker
            gen == IF side = "main" THEN WorldGenerator(gSeed)
                   ELSE WorkerWorldGenerator(gSeed)
        IN  made # None =>
              \A y \in SampleOffsets : \A x \in SampleOffsets :
                LET tile == made[1].tiles[y][x]
                    tileX == gX * CHUNK_SIZE + x
                    tileY == gY * CHUNK_SIZE + y
                    spawnVal == Noise(gSeed, gen.resourceSpawnNoise,
                                      tileX * SpawnScale, tileY * SpawnScale)
                    resourceVal == Noise(gSeed, gen.resourceNoise,
                                         tileX * ResourceScale,
                                         tileY * ResourceScale)
                IN  /\ (tile.resource # None) <=>
                         (tile.type = "land" /\ spawnVal > 700)
                    /\ Cardinality({kind \in ResourceTypes :
                                      InBand(kind, resourceVal)}) = 1
                    /\ tile.resource # None =>
                         /\ tile.resource[1] \in ResourceTypes
                         /\ InBand(tile.resource[1], resourceVal)

\* the main generator's chunk holds a copper tile whose resource noise sits
\* exactly on the 0.6 band edge, an iron tile, and a water tile (no resource)
C24_Witness ==
  /\ gMain # None
  /\ \E y \in SampleOffsets : \E x \in SampleOffsets :
       /\ gMain[1].tiles[y][x].resource = Some("copper")
       /\ Noise(gSeed, 2, (gX * CHUNK_SIZE + x) * ResourceScale,
                (gY * CHUNK_SIZE + y) * ResourceScale) = 600
  /\ \E y \in SampleOffsets : \E x \in SampleOffsets :
       gMain[1].tiles[y][x].resource = Some("iron")
  /\ \E y \in SampleOffsets : \E x \in SampleOffsets :
       /\ gMain[1].tiles[y][x].type = "water"
       /\ gMain[1].tiles[y][x].resource = None

C26_SynchronousPath ==
  [][lastOp' = "getOrGenerateChunk" =>
       \E c \in CallCoords :
         LET K == getChunkKey(c[1], c[2])
         IN  \/ /\ K \in DOMAIN chunks
                /\ genCalls' = genCalls
                /\ notifyCount' = notifyCount
                /\ listenerLog' = listenerLog
                /\ chunks' = chunks
                /\ returned' = Some(chunks[K])
             \/ /\ K \notin DOMAIN chunks
                /\ genCalls' = [genCalls EXCEPT ![K] = @ + 1]
                /\ DOMAIN chunks' = DOMAIN chunks \cup {K}
                /\ \A k \in DOMAIN chunks : chunks'[k] = chunks[k]
                /\ chunks'[K].x = c[1] /\ chunks'[K].y = c[2]
                /\ notifyCount' = notifyCount + 1
                /\ \A l \in Listeners :
                     listenerLog'[l].calls =
                       listenerLog[l].calls + (IF l \in listeners THEN 1 ELSE 0)
                /\ returned' = Some(chunks'[K])]_vars

\* a miss followed by a hit on the same key, with one listener subscribed
\* before the miss and called once
C26_Witness ==
  /\ lastOp = "getOrGenerateChunk"
  /\ syncOps = 2
  /\ callers = <<>>
  /\ notifyCount = 1
  /\ DOMAIN chunks = {"0,0"}
  /\ returned = Some(chunks["0,0"])
  /\ listeners = {1}
  /\ listenerLog[1].calls = 1
  /\ listenerLog[2].handle = "none"

(***************************************************************************)
(* C27: async completion ordering                                          *)
(***************************************************************************)
\* C27 as stated: whenever a future returned by getOrGenerateChunkAsync(K)
\* resolves, state.chunks contains K with the resolved chunk, the in-flight
\* marker of K is cleared and notify() has run for the insertion.
C27_CompletionOrderingOfAnyFuture ==
  [][\A i \in 1..Len(callers') :
       (/\ callers'[i].outcome = "fulfilled"
        /\ (i > Len(callers) \/ callers[i].outcome # "fulfilled"))
       => LET K == callers'[i].key
          IN  /\ K \in DOMAIN chunks'
              /\ Some(chunks'[K]) = callers'[i].value
              /\ K \notin DOMAIN chunkGenerationPromises'
              /\ chunkWrites'[K] >= 1
              /\ notifyCount' >= 1]_vars

\* C27 amended: whenever a future returned by getOrGenerateChunkAsync(K)
\* resolves, state.chunks contains K with the resolved chunk and notify() has
\* run for the insertion; when the future resolves by the completion of a
\* generation (it was not answered from the cache), the insertion and notify()
\* happen in the completing step and the in-flight marker of K is cleared.
C27_CompletionOrdering ==
  [][\A i \in 1..Len(callers') :
       (/\ callers'[i].outcome = "fulfilled"
        /\ (i > Len(callers) \/ callers[i].outcome # "fulfilled"))
       => LET K == callers'[i].key
          IN  /\ K \in DOMAIN chunks'
              /\ Some(chunks'[K]) = callers'[i].value
              /\ chunkWrites'[K] >= 1
              /\ notifyCount' >= 1
              /\ ~callers'[i].cached =>
                   /\ K \notin DOMAIN chunkGenerationPromises'
                   /\ chunkWrites'[K] = chunkWrites[K] + 1
                   /\ notifyCount' = notifyCount + 1]_vars

\* a completion has just resolved two callers that hold the same future
C27_Witness ==
  /\ lastOp = "asyncCompletion"
  /\ Len(callers) = 2
  /\ callers[1].promise # 0
  /\ callers[2].promise = callers[1].promise
  /\ callers[1].outcome = "fulfilled"
  /\ callers[2].outcome = "fulfilled"
  /\ callers[2].value = Some(chunks[callers[2].key])
  /\ chunkGenerationPromises = <<>>

(***************************************************************************)
(* C28: subscription                                                       *)
(***************************************************************************)
\* C28: in every step that inserts a chunk under a key K (the synchronous
\* miss or the completion of an asynchronous generation), every listener
\* subscribed at that moment is called at least once and can read K from the
\* cache when it is called; a listener whose unsubscribe function has been
\* called is never called again.
C28_Subscription ==
  [][/\ \A K \in KeySet :
          chunkWrites'[K] # chunkWrites[K] =>
            \A l \in listeners :
              /\ listenerLog'[l].calls > listenerLog[l].calls
              /\ K \in listenerLog'[l].seen
              /\ K \in DOMAIN chunks'
     /\ \A l \in Listeners :
          (listenerLog[l].handle = "called" \/ listenerLog'[l].handle = "called")
            => listenerLog'[l].calls = listenerLog[l].calls]_vars

\* an asynchronous completion has just called the second listener for the
\* second time, after the first listener was called once and unsubscribed
C28_Witness ==
  /\ lastOp = "asyncCompletion"
  /\ listenerLog[1].handle = "called"
  /\ listenerLog[1].calls = 1
  /\ listeners = {2}
  /\ listenerLog[2].calls = 2
  /\ DOMAIN chunks \subseteq listenerLog[2].seen
  /\ notifyCount = 2

(***************************************************************************)
(* C29: messages without a live pending entry                              *)
(***************************************************************************)
\* C29: the step in which the dispatcher receives a well-formed response
\* whose id is not in the pending table of its pool, or a
\* pregenerate-complete / pregenerate-error message, settles the promise of
\* no request and leaves pendingChunkRequests and pendingTextureRequests as
\* they were.
C29_NoLiveEntryNoEffect ==
  [][/\ \A w \in DOMAIN chunkOutbox :
          LET m == Head(chunkOutbox[w])
          IN  (/\ Receives("chunk", w)
               /\ ChunkWorkerResponseSchema(m)
               /\ m.id \notin pendingChunkRequests)
              => UNCHANGED <<outcome, pendingChunkRequests, pendingTextureRequests>>
     /\ \A w \in DOMAIN textureOutbox :
          LET m == Head(textureOutbox[w])
          IN  (/\ Receives("texture", w)
               /\ TextureWorkerResponseSchema(m)
               /\ \/ m.type \in {"pregenerate-complete", "pregenerate-error"}
                  \/ m.id \notin pendingTextureRequests)
              => UNCHANGED <<outcome, pendingChunkRequests, pendingTextureRequests>>]_vars

\* the response to a chunk request that had timed out has been received and
\* changed nothing, and the pregenerate-complete message of every texture
\* worker has been received while a texture request is pending
C29_Witness ==
  /\ ~Destroyed
  /\ chunkRequestId >= 1
  /\ requests[ChunkId(1)].posted
  /\ outcome[ChunkId(1)].by = "timeout"
  /\ outcome[ChunkId(1)].calls = 1
  /\ ~Queued(chunkInbox[requests[ChunkId(1)].worker], ChunkId(1))
  /\ ~Queued(chunkOutbox[requests[ChunkId(1)].worker], ChunkId(1))
  /\ pregenerateHandlers = {}
  /\ textureRequestId >= 1
  /\ TextureId(1) \in pendingTextureRequests
  /\ outcome[TextureId(1)].state = "pending"

(***************************************************************************)
(* C30: every request eventually settles                                   *)
(***************************************************************************)
\* C30: while destroy() is not called, every entry of pendingChunkRequests is
\* eventually removed and the promise of its request is eventually resolved or
\* rejected; no pending entry lives forever.
C30_EventuallySettles ==
  \A n \in 1..(MaxChunkRequests + 1) :
    (n <= chunkRequestId /\ ChunkId(n) \in pendingChunkRequests)
      ~> (/\ n <= chunkRequestId
          /\ ChunkId(n) \notin pendingChunkRequests
          /\ outcome[ChunkId(n)].state \in {"resolved", "rejected"})

(***************************************************************************)
(* C31: world reset                                                        *)
(***************************************************************************)
\* C31: a resetState step leaves an empty chunk cache, an empty in-flight
\* table, a world seed that differs from the one before and a generator built
\* from the new seed; and at every state every cached chunk is the chunk of
\* the current seed and of no other seed, also when generations that were in
\* flight at the reset complete after it.
C31_WorldReset ==
  /\ [][lastOp' = "resetState" /\ resets' # resets =>
          /\ chunks' = <<>>
          /\ chunkGenerationPromises' = <<>>
          /\ worldSeed' # worldSeed
          /\ worldGenerator' = WorldGenerator(worldSeed')]_vars
  /\ [](\A k \in DOMAIN chunks :
          /\ chunks[k] = generateChunk(WorldGenerator(worldSeed),
                                       chunks[k].x, chunks[k].y)
          /\ \A s \in SeedSet \ {worldSeed} :
               chunks[k] # generateChunk(WorldGenerator(s),
                                         chunks[k].x, chunks[k].y))

\* a generation that was in flight when resetState ran has completed after
\* the reset and its chunk is in the cache
C31_Witness ==
  /\ resets = 1
  /\ lastOp = "asyncCompletion"
  /\ Len(callers) >= 1
  /\ callers[1].outcome = "fulfilled"
  /\ callers[1].key \in DOMAIN chunks
  /\ chunkWrites[callers[1].key] = 1
  /\ syncOps = 0
  /\ Len(promises) = 1

(***************************************************************************)
(* C32: the memo of a chunk worker                                         *)
(***************************************************************************)
\* C32: in every step in which a chunk worker serves a request, the worker
\* posts exactly one response and it carries the id of the request; when the
\* key (chunkX, chunkY) of the request is in the worker's chunkCache the
\* cache is left as it is and a successful response carries the cached chunk;
\* when it is not and the generation succeeds, the chunk is stored under the
\* key; and no step removes a key from a worker's chunkCache, so generateChunk
\* succeeds at most once per key in a worker.
C32_WorkerMemo ==
  [][\A w \in DOMAIN chunkInbox :
       /\ DOMAIN chunkCache[w] \subseteq DOMAIN chunkCache'[w]
       /\ \A k \in DOMAIN chunkCache[w] : chunkCache'[w][k] = chunkCache[w][k]
       /\ (chunkInbox[w] # <<>> /\ chunkInbox'[w] = Tail(chunkInbox[w])
             /\ ~Destroyed') =>
            LET m == Head(chunkInbox[w])
                key == IntToStr(m.chunkX) \o "," \o IntToStr(m.chunkY)
                response == chunkOutbox'[w][Len(chunkOutbox'[w])]
            IN  /\ chunkOutbox'[w] = Append(chunkOutbox[w], response)
                /\ response.id = m.id
                /\ \A v \in DOMAIN chunkOutbox :
                     v # w => chunkOutbox'[v] = chunkOutbox[v]
                /\ key \in DOMAIN chunkCache[w] =>
                     /\ chunkCache'[w] = chunkCache[w]
                     /\ response.error = None =>
                          response.chunk = chunkCache[w][key]
                /\ (key \notin DOMAIN chunkCache[w] /\ response.error = None) =>
                     /\ key \in DOMAIN chunkCache'[w]
                     /\ chunkCache'[w][key] = response.chunk
                     /\ DOMAIN chunkCache'[w] = DOMAIN chunkCache[w] \cup {key}]_vars

\* one worker has served two requests for the same chunk key, both promises
\* were resolved by the response with their own id, and the worker's cache
\* holds that one key
C32_Witness ==
  /\ ~Destroyed
  /\ chunkRequestId = 2
  /\ requests[ChunkId(1)].posted /\ requests[ChunkId(2)].posted
  /\ requests[ChunkId(1)].worker = requests[ChunkId(2)].worker
  /\ requests[ChunkId(1)].input.chunkX = requests[ChunkId(2)].input.chunkX
  /\ requests[ChunkId(1)].input.chunkY = requests[ChunkId(2)].input.chunkY
  /\ outcome[ChunkId(1)].state = "resolved" /\ outcome[ChunkId(1)].by = ChunkId(1)
  /\ outcome[ChunkId(2)].state = "resolved" /\ outcome[ChunkId(2)].by = ChunkId(2)
  /\ Cardinality(DOMAIN chunkCache[requests[ChunkId(1)].worker]) = 1

(***************************************************************************)
(* C33: the reply to a pregenerate message                                 *)
(***************************************************************************)
\* C33: in the step in which a texture worker serves a pregenerate message it
\* posts exactly one message, of type pregenerate-complete or
\* pregenerate-error, and no message that carries an imageBitmap.
C33_PregenerateReply ==
  [][\A w \in DOMAIN textureInbox :
       (/\ textureInbox[w] # <<>>
        /\ textureInbox'[w] = Tail(textureInbox[w])
        /\ Head(textureInbox[w]).type = "pregenerate"
        /\ ~Destroyed') =>
         LET before == Len(textureOutbox[w])
             posted == [i \in 1..(Len(textureOutbox'[w]) - before) |->
                          textureOutbox'[w][before + i]]
         IN  /\ Len(posted) = 1
             /\ posted[1].type \in {"pregenerate-complete", "pregenerate-error"}
             /\ \A i \in 1..Len(posted) : posted[i].imageBitmap = None]_vars

(***************************************************************************)
(* C34: in-flight markers and cached keys                                  *)
(***************************************************************************)
\* C34: at every state in which no completion callback is queued, no key is
\* both in state.chunks and in chunkGenerationPromises.
C34_MarkersDisjointFromCache ==
  microtasks = <<>> =>
    DOMAIN chunkGenerationPromises \cap DOMAIN chunks = {}

\* no callback is queued after two asynchronous generations completed and the
\* synchronous path generated as well; both keys are cached
C34_Witness ==
  /\ microtasks = <<>>
  /\ Len(promises) = 2
  /\ syncOps >= 1
  /\ lastOp = "asyncCompletion"
  /\ DOMAIN chunks = KeySet
  /\ \E k \in KeySet : chunkWrites[k] >= 2

(***************************************************************************)
(* C35: a request refused by the outgoing validation                       *)
(***************************************************************************)
\* C35: when generateChunk rejects because its outgoing request fails the
\* request schema, no message is posted to any worker and the pending table
\* holds no entry for that request after the call.
C35_NoResidue ==
  [][chunkRequestId' = chunkRequestId + 1 =>
       LET id == ChunkId(chunkRequestId')
       IN  ~ChunkWorkerRequestSchema(requests'[id].input) =>
             /\ outcome'[id].state = "rejected"
             /\ chunkInbox' = chunkInbox
             /\ textureInbox' = textureInbox
             /\ id \notin pendingChunkRequests']_vars

(***************************************************************************)
(* C36: the generator in use and state.worldSeed                           *)
(***************************************************************************)
\* C36: at every reachable state of the GameStateManager, constructed with or
\* without a save and reset any number of times, the generator in use is the
\* one built from state.worldSeed, and every chunk of state.chunks is what
\* that seed generates for the chunk's coordinates.
C36_GeneratorSeedCoherence ==
  /\ worldGenerator.seed = worldSeed
  /\ worldGenerator = WorldGenerator(worldSeed)
  /\ \A k \in DOMAIN chunks :
       \E c \in CallCoords \cup {<<cc.chunkX, cc.chunkY>> :
                                   cc \in {getChunkCoordinates(t[1], t[2]) : t \in MineTiles}} :
         /\ k = getChunkKey(c[1], c[2])
         /\ chunks[k] = generateChunk(WorldGenerator(worldSeed), c[1], c[2])

\* a game constructed from a save, whose seed is not the one a new game draws,
\* holds a chunk that an asynchronous generation stored after the load
C36_Witness ==
  /\ resets = 0
  /\ worldSeed = Seeds[2]
  /\ inventory["stone"] >= 5
  /\ lastOp = "asyncCompletion"
  /\ chunks # <<>>

(***************************************************************************)
(* C37: tile addressing                                                    *)
(***************************************************************************)
\* C37: for every integer world tile, negative ones included, the chunk
\* coordinate is floor(tile / 32), the local offset lies in 0..31, chunk * 32
\* + local is the tile again, the out-of-range branch is not taken, and the
\* tile read at [localY][localX] is the one generateChunk made for that world
\* coordinate.
C37_TileAddressing ==
  addressed # None =>
    LET a == addressed[1]
    IN  /\ a.chunkX * CHUNK_SIZE <= aTile[1] /\ aTile[1] < (a.chunkX + 1) * CHUNK_SIZE
        /\ a.chunkY * CHUNK_SIZE <= aTile[2] /\ aTile[2] < (a.chunkY + 1) * CHUNK_SIZE
        /\ a.localTileX \in 0..(CHUNK_SIZE - 1)
        /\ a.localTileY \in 0..(CHUNK_SIZE - 1)
        /\ a.chunkX * CHUNK_SIZE + a.localTileX = aTile[1]
        /\ a.chunkY * CHUNK_SIZE + a.localTileY = aTile[2]
        /\ ~a.outOfRange
        /\ a.tile # None => a.tile[1] = generateTile(worldGenerator, aTile[1], aTile[2])

\* the tile (-1, -33) was addressed: chunk (-1, -2), offsets (31, 31), and the
\* tile at those offsets was read
C37_Witness ==
  /\ aTile = <<0 - 1, 0 - 33>>
  /\ addressed # None
  /\ addressed[1].chunkX = 0 - 1
  /\ addressed[1].chunkY = 0 - 2
  /\ addressed[1].localTileX = CHUNK_SIZE - 1
  /\ addressed[1].localTileY = CHUNK_SIZE - 1
  /\ addressed[1].tile # None

(***************************************************************************)
(* C38: placed entities                                                    *)
(***************************************************************************)
\* C38: at every state no two entities of state.entities cover a common tile
\* and every tile under an entity is a land tile of the world; and a
\* placeEntity call whose rectangle covers a tile of an existing entity or a
\* water tile returns false and leaves state.entities unchanged.
C38_EntityPlacement ==
  /\ [](LET covered(e) == (e.x..(e.x + e.width - 1)) \X (e.y..(e.y + e.height - 1))
        IN  /\ \A i, j \in DOMAIN entities :
                 i # j => covered(entities[i]) \cap covered(entities[j]) = {}
            /\ \A i \in DOMAIN entities : \A t \in covered(entities[i]) :
                 generateTile(WorldGenerator(worldSeed), t[1], t[2]).type = "land")
  /\ [][\A in \in PlaceInputs :
          PlaceEntity(in[1], in[2], in[3]) =>
            LET tilesOf(x, y, w, h) == (x..(x + w - 1)) \X (y..(y + h - 1))
                d == ENTITY_DEFINITIONS[in[1]]
                rect == tilesOf(in[2] - (d.width \div 2), in[3] - (d.height \div 2),
                                d.width, d.height)
                canPlace ==
                  /\ \A i \in DOMAIN entities :
                       rect \cap tilesOf(entities[i].x, entities[i].y,
                                         entities[i].width, entities[i].height) = {}
                  /\ \A t \in rect :
                       generateTile(WorldGenerator(worldSeed), t[1], t[2]).type # "water"
            IN  IF canPlace
                THEN /\ returned' = Some(TRUE)
                     /\ Len(entities') = Len(entities) + 1
                ELSE /\ returned' = Some(FALSE)
                     /\ entities' = entities]_vars

\* a furnace stands on land and the placeEntity call that just ended was
\* refused because its rectangle overlaps the furnace
C38_Witness ==
  /\ Len(entities) = 1
  /\ lastOp = "placeEntity"
  /\ returned = Some(FALSE)
  /\ \E in \in PlaceInputs :
       LET d == ENTITY_DEFINITIONS[in[1]]
       IN  /\ in[2] - (d.width \div 2) # entities[1].x
           /\ generateTile(WorldGenerator(worldSeed), in[2] - (d.width \div 2),
                           in[3] - (d.height \div 2)).type = "land"

(***************************************************************************)
(* C39: when a chunk worker constructs its generator                       *)
(***************************************************************************)
\* C39: a chunk worker that serves a request constructs a WorkerWorldGenerator
\* exactly when it holds none yet or the request's seed differs from the seed
\* of the generator it holds; otherwise it keeps the generator it has. After
\* the request the worker holds a generator of the request's seed.
C39_GeneratorReuse ==
  [][\A w \in DOMAIN chunkInbox :
       (chunkInbox[w] # <<>> /\ chunkInbox'[w] = Tail(chunkInbox[w]) /\ ~Destroyed') =>
          LET m == Head(chunkInbox[w])
          IN  /\ workerConstructsGenerator(w) <=>
                   (generator[w] = None \/ generator[w][1].seed # m.seed)
              /\ generator'[w] = Some(WorkerWorldGenerator(m.seed))]_vars

(***************************************************************************)
(* C40: the renderer's in-flight guard                                     *)
(***************************************************************************)
\* C40: for every chunk key at most one renderChunkAsync body is in progress,
\* and the key is in pendingChunks exactly while one is; a renderChunkAsync
\* call for a key in pendingChunks requests no chunk and changes nothing; and
\* when a body ends, on a chunk or texture failure as on success, its key is
\* not in pendingChunks any more.
C40_InFlightGuard ==
  /\ [](\A k \in KeySet :
          /\ Len(renderBodies[k]) <= 1
          /\ k \in pendingChunks <=> Len(renderBodies[k]) = 1)
  /\ [][\A c \in CallCoords :
          (RenderChunkAsync(c[1], c[2]) /\ getChunkKey(c[1], c[2]) \in pendingChunks) =>
            /\ renderLog'.requested = renderLog.requested
            /\ UNCHANGED <<pendingChunks, chunkContainers, chunkTextures, renderBodies>>]_vars
  /\ [][\A k \in KeySet :
          Len(renderBodies'[k]) < Len(renderBodies[k]) => k \notin pendingChunks']_vars

\* a chunk request of the renderer failed and a texture request failed, each
\* body has ended and its key is not pending; the other key was rendered
C40_Witness ==
  /\ pendingChunks = {}
  /\ \E k \in KeySet :
       /\ renderLog.requested[k] >= 2
       /\ k \notin chunkTextures
       /\ chunkContainers[k] = "placeholder"
  /\ \E k \in KeySet : k \in chunkTextures /\ chunkContainers[k] = "chunk"

====
